---- MODULE Spec2Model ----
(***************************************************************************)
(* A model of the core of retris: the occupancy grid (GameTable + Grid),   *)
(* the active piece (ShapeName + TetrisShapeNode), the scoring engine      *)
(* (ScoreManager), the storage, and the music with the main loop that      *)
(* drives it (MusicManager, BackgroundTask, main).  Operators keep the     *)
(* names of the Rust functions they are translated from.                   *)
(***************************************************************************)
EXTENDS Integers, Sequences, FiniteSets, TLC

(***************************************************************************)
(* Dimensions.  Grid::new takes the width and the visible height as        *)
(* arguments (game.rs passes 10 and 20); the model checks smaller grids.   *)
(* SPAWN_ROWS is the constant of grid.rs.                                  *)
(***************************************************************************)
GridWidth == 5

VisibleHeight == 4

SPAWN_ROWS == 4

\* Grid::new: total_height_cells = visible_height_cells + SPAWN_ROWS
height == VisibleHeight + SPAWN_ROWS

\* Grid.width / GameTable.columns
width == GridWidth

Cols == 0 .. (width - 1)

Rows == 0 .. (height - 1)

VARIABLES
    op,             \* name of the last operation performed
    data,           \* GameTable.data: row index -> (column -> color)
    dataBefore,     \* data as it was when the last operation started
    cleared,        \* value returned by the last clear_completed_lines
    iterations,     \* loop iterations of the last clear_completed_lines
    sm,             \* the ScoreManager
    smBefore,       \* the ScoreManager when the last operation started
    storage,        \* the GameData.high_score held by Storage; its cache
                    \* and its file in the specification of the storage
    saves,          \* number of Storage::save_game_data calls so far
    trace,          \* the ScoreManager calls made so far, with their results
    warmup,         \* clears played before the traced calls started
    build,          \* the build profile: what an arithmetic overflow does
    piece,          \* the TetrisShapeNode
    pieceBefore,    \* the TetrisShapeNode when the last operation started
    ret,            \* the boolean returned by the last piece operation
    shuffles,       \* play_shuffle requests made by the last operation
    rotations,      \* the ShapeName rotations made so far
    frame,          \* what the last frame read and did
    game,           \* the Game
    gameBefore,     \* the Game when the last frame started
    twin,           \* a second Game, fed the same frames as game
    music,          \* main's music_manager: an Option<MusicManager>
    app             \* the locals of main that outlive a frame

gridVars == <<data, dataBefore, cleared, iterations>>

scoreVars == <<sm, smBefore, storage, saves, trace, warmup, build>>

pieceVars == <<piece, pieceBefore, ret, shuffles, rotations>>

gameVars == <<frame, game, gameBefore, twin>>

musicVars == <<music, app>>

vars == <<op, gridVars, scoreVars, pieceVars, gameVars, musicVars>>

\* The music and the main loop are not used by the other specifications.
MusicIdle ==
    /\ music = << >>
    /\ app = << >>

(***************************************************************************)
(* GameTable<Color>                                                        *)
(***************************************************************************)
\* HashMap::new(): a map without keys
EmptyRow == [c \in {} |-> 0]

\* GameTable::new
NewTable == [r \in Rows |-> EmptyRow]

is_valid_position(col, row) ==
    col >= 0 /\ col < width /\ row >= 0 /\ row < height

\* HashMap::insert
Insert(m, col, value) ==
    [c \in (DOMAIN m) \cup {col} |-> IF c = col THEN value ELSE m[c]]

set(d, col, row, value) ==
    IF ~is_valid_position(col, row) THEN d
    ELSE [d EXCEPT ![row] = Insert(d[row], col, value)]

has(d, col, row) ==
    IF ~is_valid_position(col, row) THEN FALSE
    ELSE col \in DOMAIN d[row]

is_row_full(d, row) ==
    IF ~is_valid_position(0, row) THEN FALSE
    ELSE Cardinality(DOMAIN d[row]) = width

\* One iteration of the shift loop: drain source_row and insert every
\* drained entry into source_row + 1 (an insert replaces an old entry).
ShiftRow(d, source_row) ==
    LET drained == d[source_row]
        below   == d[source_row + 1]
        merged  == [c \in (DOMAIN below) \cup (DOMAIN drained) |->
                       IF c \in DOMAIN drained THEN drained[c] ELSE below[c]]
    IN  [d EXCEPT ![source_row] = EmptyRow, ![source_row + 1] = merged]

\* for source_row in (0..row).rev()
RECURSIVE ShiftLoop(_, _)
ShiftLoop(d, source_row) ==
    IF source_row < 0 THEN d
    ELSE ShiftLoop(ShiftRow(d, source_row), source_row - 1)

\* Variant: the row is emptied but the rows above it stay where they are.
remove_row_and_shift_down_NoShift(d, row) ==
    IF ~is_valid_position(0, row) THEN [ok |-> FALSE, data |-> d]
    ELSE [ok |-> TRUE, data |-> [d EXCEPT ![row] = EmptyRow]]

\* Returns the pair (returned flag, table afterwards).
remove_row_and_shift_down(d, row) ==
    IF ~is_valid_position(0, row) THEN [ok |-> FALSE, data |-> d]
    ELSE [ok   |-> TRUE,
          data |-> ShiftLoop([d EXCEPT ![row] = EmptyRow], row - 1)]

\* GameTable::clear
clear(d) == [r \in DOMAIN d |-> EmptyRow]

\* GameTable::iter: the (col, row, color) triples stored
iter(d) == {<<c, r, d[r][c]>> : <<c, r>> \in {p \in Cols \X Rows : p[1] \in DOMAIN d[p[2]]}}

(***************************************************************************)
(* Grid                                                                    *)
(***************************************************************************)
\* Variant: the loop moves to the row above after every removal, without
\* testing the same index again.
RECURSIVE ClearLoop_NoRecheck(_, _, _, _)
ClearLoop_NoRecheck(d, row_y, cleared_count, n) ==
    IF ~(row_y >= SPAWN_ROWS)
    THEN [data |-> d, cleared_count |-> cleared_count, iterations |-> n]
    ELSE IF Cardinality(DOMAIN d[row_y]) = width
         THEN ClearLoop_NoRecheck(
                  ShiftLoop([d EXCEPT ![row_y] = EmptyRow], row_y - 1),
                  row_y - 1, cleared_count + 1, n + 1)
         ELSE ClearLoop_NoRecheck(d, row_y - 1, cleared_count, n + 1)

\* The while loop of clear_completed_lines.  n counts its iterations.
RECURSIVE ClearLoop(_, _, _, _)
ClearLoop(d, row_y, cleared_count, n) ==
    IF ~(row_y >= SPAWN_ROWS)
    THEN [data |-> d, cleared_count |-> cleared_count, iterations |-> n]
    ELSE IF is_row_full(d, row_y)
         THEN LET r == remove_row_and_shift_down(d, row_y)
              IN  IF r.ok
                  THEN ClearLoop(r.data, row_y, cleared_count + 1, n + 1)
                  ELSE ClearLoop(r.data, row_y - 1, cleared_count, n + 1)
         ELSE ClearLoop(d, row_y - 1, cleared_count, n + 1)

\* Variant: the scan starts one row above the bottom row.
clear_completed_lines_SkipBottom(d) == ClearLoop(d, height - 2, 0, 0)

clear_completed_lines(d) == ClearLoop(d, height - 1, 0, 0)

\* Variant: a cell above row 0 counts as free.
is_cell_occupied_OpenTop(d, cell_x, cell_y) ==
    IF cell_x < 0 \/ cell_x >= width \/ cell_y >= height
    THEN TRUE
    ELSE IF cell_y < 0 THEN FALSE
    ELSE has(d, cell_x, cell_y)

is_cell_occupied(d, cell_x, cell_y) ==
    IF cell_x < 0 \/ cell_x >= width \/ cell_y < 0 \/ cell_y >= height
    THEN TRUE
    ELSE has(d, cell_x, cell_y)

(***************************************************************************)
(* ShapeName and ShapeDimension.  The offsets are f32 in the code but only *)
(* ever hold small whole numbers (rotation swaps and negates them), so     *)
(* position.x.round() as i32 is the offset itself; they are integers here. *)
(***************************************************************************)
GameplayPieces == {"Straight", "Square", "Tee", "Ell", "Slew"}

is_gameplay_piece(kind) == kind \in GameplayPieces

new_straight == <<<<0, -1>>, <<0, 0>>, <<0, 1>>, <<0, 2>>>>

new_square == <<<<0, 0>>, <<1, 0>>, <<0, 1>>, <<1, 1>>>>

new_tee == <<<<-1, 0>>, <<0, 0>>, <<1, 0>>, <<0, 1>>>>

new_ell == <<<<0, -1>>, <<0, 0>>, <<0, 1>>, <<1, 1>>>>

new_slew == <<<<-1, 0>>, <<0, 0>>, <<0, 1>>, <<1, 1>>>>

\* The kind and the dimensions chosen by get_shape_by_index(index)
get_shape_by_index(index) ==
    CASE index = 0 -> [kind |-> "Straight", dims |-> new_straight]
      [] index = 1 -> [kind |-> "Square",   dims |-> new_square]
      [] index = 2 -> [kind |-> "Tee",      dims |-> new_tee]
      [] index = 3 -> [kind |-> "Ell",      dims |-> new_ell]
      [] OTHER     -> [kind |-> "Slew",     dims |-> new_slew]

\* Variant: the quarter turn the other way round.
dimension_rotate_clockwise_Transposed(pos) == <<pos[2], pos[1]>>

\* ShapeDimension::rotate_clockwise, named apart from ShapeName's
dimension_rotate_clockwise(pos) == <<pos[2], -pos[1]>>

\* ShapeDimension::rotate_counter_clockwise
dimension_rotate_counter_clockwise(pos) == <<-pos[2], pos[1]>>

\* ShapeName::rotate_clockwise
rotate_clockwise(kind, dims) ==
    IF ~is_gameplay_piece(kind) THEN dims
    ELSE IF kind = "Square" THEN dims
    ELSE [i \in DOMAIN dims |-> dimension_rotate_clockwise(dims[i])]

\* ShapeName::rotate_counter_clockwise
rotate_counter_clockwise(kind, dims) ==
    IF ~is_gameplay_piece(kind) THEN dims
    ELSE IF kind = "Square" THEN dims
    ELSE [i \in DOMAIN dims |-> dimension_rotate_counter_clockwise(dims[i])]

(***************************************************************************)
(* TetrisShapeNode                                                         *)
(***************************************************************************)
SPAWN_VELOCITY == 2

SPAWN_ROW == 0

\* The color TetrisShapeNode::new gives to a shape
ShapeColor(kind) ==
    CASE kind = "Straight" -> "COLOR_CYAN"
      [] kind = "Square"   -> "COLOR_YELLOW"
      [] kind = "Tee"      -> "COLOR_MAGENTA"
      [] kind = "Ell"      -> "COLOR_ORANGE"
      [] kind = "Slew"     -> "COLOR_SOFTWARE_GREEN"
      [] OTHER             -> "WHITE"

\* TetrisShapeNode::new, with the random shape index as an argument
new_piece(velocity, cell_x, cell_y, shape_index) ==
    LET random_shape == get_shape_by_index(shape_index)
    IN  [velocity              |-> velocity,
         cell_x                |-> cell_x,
         cell_y                |-> cell_y,
         stopped               |-> FALSE,
         kind                  |-> random_shape.kind,
         dims                  |-> random_shape.dims,
         color                 |-> ShapeColor(random_shape.kind),
         fall_timer            |-> 0,
         horizontal_move_timer |-> 0,
         das_timer             |-> 0,
         das_active            |-> FALSE,
         last_direction        |-> 0]

get_occupied_cells_at_position(p, cell_x, cell_y) ==
    [i \in DOMAIN p.dims |-> <<cell_x + p.dims[i][1], cell_y + p.dims[i][2]>>]

get_occupied_cells(p) == get_occupied_cells_at_position(p, p.cell_x, p.cell_y)

\* The loop returns false at the first cell that is out of the grid or
\* occupied, and true when there is none.
is_position_valid(p, test_cell_x, test_cell_y, d) ==
    LET cells == get_occupied_cells_at_position(p, test_cell_x, test_cell_y)
    IN  \A i \in DOMAIN cells :
            /\ ~(cells[i][1] < 0 \/ cells[i][1] >= width)
            /\ ~(cells[i][2] < 0 \/ cells[i][2] >= height)
            /\ ~is_cell_occupied(d, cells[i][1], cells[i][2])

\* Variant: the kicks to the right are tried before the kicks to the left.
WALL_KICK_OFFSETS_RightFirst == <<1, -1, 2, -2, 0>>

WALL_KICK_OFFSETS == <<-1, 1, -2, 2, 0>>

\* The result of a rotation: the piece afterwards and the value returned.
RotateResult(p, ok) == [piece |-> p, ok |-> ok]

\* Variant: a failed rotation leaves the rotated geometry in place.
Reverted_Forgotten(rotated) == rotated

\* self.shape_name.rotate_counter_clockwise() on the rotated piece
Reverted(rotated) ==
    [rotated EXCEPT !.dims = rotate_counter_clockwise(rotated.kind, rotated.dims)]

\* for &offset in &WALL_KICK_OFFSETS, from the i-th offset on
RECURSIVE KickLoop(_, _, _)
KickLoop(rotated, d, i) ==
    IF i > Len(WALL_KICK_OFFSETS)
    THEN RotateResult(Reverted(rotated), FALSE)
    ELSE LET offset == WALL_KICK_OFFSETS[i]
             test_x == rotated.cell_x + offset
         IN  IF offset = 0
             THEN RotateResult(Reverted(rotated), FALSE)
             ELSE IF is_position_valid(rotated, test_x, rotated.cell_y, d)
                  THEN RotateResult([rotated EXCEPT !.cell_x = test_x], TRUE)
                  ELSE KickLoop(rotated, d, i + 1)

rotate_clockwise_with_wall_kick(p, d) ==
    LET rotated == [p EXCEPT !.dims = rotate_clockwise(p.kind, p.dims)]
    IN  IF is_position_valid(rotated, rotated.cell_x, rotated.cell_y, d)
        THEN RotateResult(rotated, TRUE)
        ELSE KickLoop(rotated, d, 1)

\* Variant: the exception for cells above the grid is left out.
can_move_down_NoException(d, shape_cells) ==
    \A i \in DOMAIN shape_cells :
        /\ ~(shape_cells[i][2] + 1 >= height)
        /\ ~has(d, shape_cells[i][1], shape_cells[i][2] + 1)

\* Grid::can_move_down
can_move_down(d, shape_cells) ==
    LET has_cells_above_grid == \E i \in DOMAIN shape_cells : shape_cells[i][2] < 0
    IN  IF has_cells_above_grid THEN TRUE
        ELSE \A i \in DOMAIN shape_cells :
                 /\ ~(shape_cells[i][2] + 1 >= height)
                 /\ ~has(d, shape_cells[i][1], shape_cells[i][2] + 1)

(***************************************************************************)
(* TetrisShapeNode::update.  The timers are f32 seconds in the code; the   *)
(* model counts them in whole milliseconds, so DAS_DELAY = 0.133 is 133    *)
(* and 1.0 / ARR_SPEED is 50.  An input is what the frame reads from the   *)
(* keyboard and the mobile controller: rotate (Space pressed or a tap on   *)
(* the piece), left and right (pressed or held), down (held).  The frame   *)
(* deltas of the specifications are chosen so that no sum of deltas meets  *)
(* a threshold exactly: on such sums f32 and exact arithmetic agree.       *)
(***************************************************************************)
DAS_DELAY == 133

ARR_SPEED == 20

Inputs == [rotate : BOOLEAN, left : BOOLEAN, right : BOOLEAN, down : BOOLEAN]

can_move_horizontal(p, direction, d) ==
    LET current_cells == get_occupied_cells(p)
    IN  \A i \in DOMAIN current_cells :
            /\ ~(current_cells[i][1] + direction < 0
                    \/ current_cells[i][1] + direction >= width)
            /\ ~is_cell_occupied(d, current_cells[i][1] + direction,
                                 current_cells[i][2])

\* let direction = ...: -1, 1, or 0 for None
Direction(input) ==
    IF input.left /\ ~input.right THEN -1
    ELSE IF input.right /\ ~input.left THEN 1
    ELSE 0

\* Variant: a blocked repeat move keeps the repeat timer.
RECURSIVE ArrLoop_KeepTimer(_, _, _, _)
ArrLoop_KeepTimer(p, dir, d, time_per_cell) ==
    IF ~(p.horizontal_move_timer >= time_per_cell) THEN p
    ELSE IF can_move_horizontal(p, dir, d)
         THEN ArrLoop_KeepTimer([p EXCEPT !.cell_x = @ + dir,
                                          !.horizontal_move_timer = @ - time_per_cell],
                                dir, d, time_per_cell)
         ELSE p

\* while self.horizontal_move_timer >= time_per_cell
RECURSIVE ArrLoop(_, _, _, _)
ArrLoop(p, dir, d, time_per_cell) ==
    IF ~(p.horizontal_move_timer >= time_per_cell) THEN p
    ELSE IF can_move_horizontal(p, dir, d)
         THEN ArrLoop([p EXCEPT !.cell_x = @ + dir,
                                !.horizontal_move_timer = @ - time_per_cell],
                      dir, d, time_per_cell)
         ELSE [p EXCEPT !.horizontal_move_timer = 0]

\* Variant: the first frame of a direction resets the timers without moving.
FirstPress_NoMove(p, dir, d) ==
    [p EXCEPT !.last_direction = dir,
              !.das_timer = 0,
              !.das_active = FALSE,
              !.horizontal_move_timer = 0]

\* update, the branch "dir != self.last_direction"
FirstPress(p, dir, d) ==
    LET q == [p EXCEPT !.last_direction = dir,
                       !.das_timer = 0,
                       !.das_active = FALSE,
                       !.horizontal_move_timer = 0]
    IN  IF can_move_horizontal(q, dir, d)
        THEN [q EXCEPT !.cell_x = @ + dir]
        ELSE q

\* Variant: the frame on which the delay completes keeps the repeat timer.
DasDelay_MoveAtOnce(p, dir, fixed_delta, d) ==
    LET q == [p EXCEPT !.das_timer = @ + fixed_delta]
    IN  IF q.das_timer >= DAS_DELAY
        THEN ArrLoop([q EXCEPT !.das_active = TRUE,
                               !.horizontal_move_timer = 1000 \div ARR_SPEED],
                     dir, d, 1000 \div ARR_SPEED)
        ELSE q

\* update, the branch "!self.das_active"
DasDelay(p, dir, fixed_delta, d) ==
    LET q == [p EXCEPT !.das_timer = @ + fixed_delta]
    IN  IF q.das_timer >= DAS_DELAY
        THEN [q EXCEPT !.das_active = TRUE, !.horizontal_move_timer = 0]
        ELSE q

\* Variant: the idle branch leaves das_active as it was.
UpdateHorizontal_KeepDas(p, input, fixed_delta, d) ==
    LET dir == Direction(input)
    IN  IF p.stopped THEN p
        ELSE IF dir # 0
             THEN IF dir # p.last_direction
                  THEN FirstPress(p, dir, d)
                  ELSE IF ~p.das_active
                       THEN DasDelay(p, dir, fixed_delta, d)
                       ELSE ArrLoop([p EXCEPT !.horizontal_move_timer = @ + fixed_delta],
                                    dir, d, 1000 \div ARR_SPEED)
             ELSE [p EXCEPT !.last_direction = 0,
                            !.das_timer = 0,
                            !.horizontal_move_timer = 0]

\* update, lines 595-666: the horizontal movement
UpdateHorizontal(p, input, fixed_delta, d) ==
    LET dir == Direction(input)
    IN  IF p.stopped THEN p
        ELSE IF dir # 0
             THEN IF dir # p.last_direction
                  THEN FirstPress(p, dir, d)
                  ELSE IF ~p.das_active
                       THEN DasDelay(p, dir, fixed_delta, d)
                       ELSE ArrLoop([p EXCEPT !.horizontal_move_timer = @ + fixed_delta],
                                    dir, d, 1000 \div ARR_SPEED)
             ELSE [p EXCEPT !.last_direction = 0,
                            !.das_timer = 0,
                            !.das_active = FALSE,
                            !.horizontal_move_timer = 0]

\* Variant: the break after the piece has stopped is missing, so the step
\* down is still taken.
RECURSIVE FallLoop_NoBreak(_, _, _)
FallLoop_NoBreak(p, d, time_per_cell) ==
    IF ~(p.fall_timer >= time_per_cell) THEN p
    ELSE IF ~can_move_down(d, get_occupied_cells(p))
         THEN [p EXCEPT !.stopped = TRUE, !.cell_y = @ + 1,
                        !.fall_timer = 0 - time_per_cell]
         ELSE FallLoop_NoBreak([p EXCEPT !.cell_y = @ + 1,
                                         !.fall_timer = @ - time_per_cell],
                               d, time_per_cell)

\* while self.fall_timer >= time_per_cell
RECURSIVE FallLoop(_, _, _)
FallLoop(p, d, time_per_cell) ==
    IF ~(p.fall_timer >= time_per_cell) THEN p
    ELSE IF ~can_move_down(d, get_occupied_cells(p))
         THEN [p EXCEPT !.stopped = TRUE, !.fall_timer = 0]
         ELSE FallLoop([p EXCEPT !.cell_y = @ + 1, !.fall_timer = @ - time_per_cell],
                       d, time_per_cell)

\* Variant: the soft drop triples the velocity.
UpdateGravity_Triple(p, input, fixed_delta, d) ==
    IF ~p.stopped /\ p.velocity > 0
    THEN LET effective_velocity == IF input.down THEN p.velocity * 3 ELSE p.velocity
         IN  FallLoop([p EXCEPT !.fall_timer = @ + fixed_delta], d,
                      1000 \div effective_velocity)
    ELSE p

\* update, lines 668-699: the downward movement.  1.0 / effective_velocity
\* is a whole number of milliseconds for the velocities in use (2 and 10).
UpdateGravity(p, input, fixed_delta, d) ==
    IF ~p.stopped /\ p.velocity > 0
    THEN LET effective_velocity == IF input.down THEN p.velocity * 5 ELSE p.velocity
         IN  FallLoop([p EXCEPT !.fall_timer = @ + fixed_delta], d,
                      1000 \div effective_velocity)
    ELSE p

\* Variant: every rotation attempt requests the shuffle sound.
UpdateRotation_EveryAttempt(p, input, d) ==
    IF input.rotate
    THEN RotateResult(rotate_clockwise_with_wall_kick(p, d).piece, TRUE)
    ELSE RotateResult(p, FALSE)

\* update, lines 587-593: the rotation
UpdateRotation(p, input, d) ==
    IF input.rotate THEN rotate_clockwise_with_wall_kick(p, d)
    ELSE RotateResult(p, FALSE)

\* TetrisShapeNode::update.  The result holds the piece after the frame,
\* the piece after each of the first two steps, and the play_shuffle
\* requests made.
update(p, input, fixed_delta, d) ==
    LET r       == UpdateRotation(p, input, d)
        shifted == UpdateHorizontal(r.piece, input, fixed_delta, d)
    IN  [piece    |-> UpdateGravity(shifted, input, fixed_delta, d),
         rotated  |-> r.piece,
         shifted  |-> shifted,
         shuffles |-> IF r.ok THEN 1 ELSE 0]

(***************************************************************************)
(* ScoreManager.  score and high_score are u64, the other counters u32.    *)
(* TLC computes with 32-bit integers and stops with an error on overflow;  *)
(* within the bounds below every value stays under 2^31, where the         *)
(* unsigned arithmetic of the code is ordinary integer arithmetic.         *)
(***************************************************************************)
\* 1 << n
RECURSIVE Shl1(_)
Shl1(n) == IF n <= 0 THEN 1 ELSE 2 * Shl1(n - 1)

\* ScoreManager::new, given the high score that Storage::load_game_data returns
new(loaded_high_score) ==
    [score                 |-> 0,
     lines_cleared         |-> 0,
     level                 |-> 0,
     current_multiplier    |-> 1,
     combo_count           |-> 0,
     high_score            |-> loaded_high_score,
     high_score_needs_sync |-> FALSE,
     base_points_per_row   |-> 137,
     lines_per_level       |-> 10]

\* let rows_bonus_multiplier = match rows_cleared { ... }
rows_bonus_multiplier(rows_cleared) ==
    CASE rows_cleared = 1 -> 1
      [] rows_cleared = 2 -> 3
      [] rows_cleared = 3 -> 7
      [] rows_cleared = 4 -> 15
      [] OTHER            -> Shl1(rows_cleared) - 1

\* let combo_multiplier = 1u64 << (self.combo_count - 1)
combo_multiplier(combo_count) == Shl1(combo_count - 1)

\* Variant: the first bucket also takes level 5.
level_multiplier_OffByOne(level_at_clear) ==
    CASE level_at_clear \in 0 .. 5   -> 1
      [] level_at_clear \in 6 .. 9   -> 2
      [] level_at_clear \in 10 .. 14 -> 3
      [] level_at_clear \in 15 .. 19 -> 5
      [] OTHER                       -> 8

\* let level_multiplier = match level_at_clear { ... }
level_multiplier(level_at_clear) ==
    CASE level_at_clear \in 0 .. 4   -> 1
      [] level_at_clear \in 5 .. 9   -> 2
      [] level_at_clear \in 10 .. 14 -> 3
      [] level_at_clear \in 15 .. 19 -> 5
      [] OTHER                       -> 8

\* Variant: save_high_score is never run.
ScoreResult_NeverSaved(s, points, saved) ==
    [sm |-> s, points |-> points, saved |-> FALSE]

\* The result of a mutator: the ScoreManager afterwards, the value returned
\* and whether save_high_score ran.
ScoreResult(s, points, saved) == [sm |-> s, points |-> points, saved |-> saved]

\* on_rows_cleared from "let level_at_clear" to "points"
RowsClearedBody(s, rows_cleared) ==
    LET level_at_clear      == s.level
        lines               == s.lines_cleared + rows_cleared
        new_level           == lines \div s.lines_per_level
        combo               == s.combo_count + 1
        rows_bonus          == rows_bonus_multiplier(rows_cleared)
        previous_multiplier == s.current_multiplier
        points              == s.base_points_per_row * rows_bonus * previous_multiplier
                                   * combo_multiplier(combo)
                                   * level_multiplier(level_at_clear)
        new_score           == s.score + points
        new_high            == new_score > s.high_score
    IN  ScoreResult(
            [s EXCEPT !.lines_cleared         = lines,
                      !.level                 = new_level,
                      !.combo_count           = combo,
                      !.score                 = new_score,
                      !.high_score            = IF new_high THEN new_score ELSE @,
                      !.high_score_needs_sync = IF new_high THEN TRUE ELSE @,
                      !.current_multiplier    = rows_bonus],
            points, new_high)

\* Variant: the multiplier of the last clear is kept and compounded.
on_rows_cleared_Compound(s, rows_cleared) ==
    IF rows_cleared = 0 THEN ScoreResult(s, 0, FALSE)
    ELSE LET r == RowsClearedBody(s, rows_cleared)
         IN  [r EXCEPT !.sm.current_multiplier = s.current_multiplier * @]

\* Variant: the level is computed before the cleared rows are added.
on_rows_cleared_StaleLevel(s, rows_cleared) ==
    IF rows_cleared = 0 THEN ScoreResult(s, 0, FALSE)
    ELSE LET r == RowsClearedBody(s, rows_cleared)
         IN  [r EXCEPT !.sm.level = s.lines_cleared \div s.lines_per_level]

on_rows_cleared(s, rows_cleared) ==
    IF rows_cleared = 0 THEN ScoreResult(s, 0, FALSE)
    ELSE RowsClearedBody(s, rows_cleared)

\* Variant: the multiplier is reset but the combo count is kept.
on_piece_landed_no_clear_KeepCombo(s) ==
    [s EXCEPT !.current_multiplier = 1]

on_piece_landed_no_clear(s) ==
    [s EXCEPT !.current_multiplier = 1, !.combo_count = 0]

(***************************************************************************)
(* ScoreManager at the full width of its integers.  A natural number is    *)
(* the sequence of its base-256 digits, lowest first and without a leading *)
(* zero, so a u64 is a number of at most 8 digits and a u32 one of at most *)
(* 4.  The primitives are those of Rust's overflowing_mul, overflowing_add *)
(* and overflowing_shl: the wrapped value and whether the operation        *)
(* overflowed.  A debug build panics on an overflow (overflow-checks), a   *)
(* release build goes on with the wrapped value; "as u32" truncates in     *)
(* both.  lines_cleared, level and combo_count stay ordinary integers:     *)
(* within the bounds of the specification they are far below 2^31.         *)
(***************************************************************************)
U64_BYTES == 8

U32_BYTES == 4

Builds == {"debug", "release"}

\* The digits of the integer n
RECURSIVE Wide(_)
Wide(n) == IF n = 0 THEN << >> ELSE <<n % 256>> \o Wide(n \div 256)

Digit(a, i) == IF i <= Len(a) THEN a[i] ELSE 0

RECURSIVE Strip(_)
Strip(a) ==
    IF a # << >> /\ a[Len(a)] = 0 THEN Strip(SubSeq(a, 1, Len(a) - 1)) ELSE a

RECURSIVE AddFrom(_, _, _, _)
AddFrom(a, b, i, carry) ==
    IF i > Len(a) /\ i > Len(b) /\ carry = 0 THEN << >>
    ELSE LET t == Digit(a, i) + Digit(b, i) + carry
         IN  <<t % 256>> \o AddFrom(a, b, i + 1, t \div 256)

\* a + b
WideAdd(a, b) == AddFrom(a, b, 1, 0)

RECURSIVE ScaleFrom(_, _, _, _)
ScaleFrom(a, k, i, carry) ==
    IF i > Len(a) /\ carry = 0 THEN << >>
    ELSE LET t == Digit(a, i) * k + carry
         IN  <<t % 256>> \o ScaleFrom(a, k, i + 1, t \div 256)

\* a * b
RECURSIVE WideMul(_, _)
WideMul(a, b) ==
    IF b = << >> THEN << >>
    ELSE Strip(WideAdd(ScaleFrom(a, b[1], 1, 0), <<0>> \o WideMul(a, Tail(b))))

\* a - 1, for a > 0
RECURSIVE WideDec(_)
WideDec(a) ==
    IF a[1] > 0 THEN Strip(<<a[1] - 1>> \o Tail(a))
    ELSE <<255>> \o WideDec(Tail(a))

\* 2^n
WidePow2(n) == [i \in 1 .. (n \div 8) |-> 0] \o <<2 ^ (n % 8)>>

\* a < b
RECURSIVE WideLess(_, _)
WideLess(a, b) ==
    IF Len(a) # Len(b) THEN Len(a) < Len(b)
    ELSE IF a = << >> THEN FALSE
    ELSE IF a[Len(a)] # b[Len(b)] THEN a[Len(a)] < b[Len(b)]
    ELSE WideLess(Strip(SubSeq(a, 1, Len(a) - 1)), Strip(SubSeq(b, 1, Len(b) - 1)))

\* a modulo 256^bytes
Low(a, bytes) == Strip(SubSeq(a, 1, IF Len(a) < bytes THEN Len(a) ELSE bytes))

Overflowing(value, overflow) == [value |-> value, overflow |-> overflow]

\* u64 * u64
mul_u64(a, b) ==
    LET p == WideMul(a, b)
    IN  Overflowing(Low(p, U64_BYTES), Len(p) > U64_BYTES)

\* u64 + u64
add_u64(a, b) ==
    LET t == WideAdd(a, b)
    IN  Overflowing(Low(t, U64_BYTES), Len(t) > U64_BYTES)

\* 1u64 << n: the shift amount is taken modulo 64
shl1_u64(n) == Overflowing(WidePow2(n % 64), n >= 64)

\* rows_bonus_multiplier as u32
as_u32(a) == Low(a, U32_BYTES)

\* ScoreManager::new
new_u64(loaded_high_score) ==
    [score                 |-> Wide(0),
     lines_cleared         |-> 0,
     level                 |-> 0,
     current_multiplier    |-> Wide(1),
     combo_count           |-> 0,
     high_score            |-> loaded_high_score,
     high_score_needs_sync |-> FALSE,
     base_points_per_row   |-> Wide(137),
     lines_per_level       |-> 10]

\* let rows_bonus_multiplier = match rows_cleared { ... }
rows_bonus_multiplier_u64(rows_cleared) ==
    CASE rows_cleared = 1 -> Overflowing(Wide(1), FALSE)
      [] rows_cleared = 2 -> Overflowing(Wide(3), FALSE)
      [] rows_cleared = 3 -> Overflowing(Wide(7), FALSE)
      [] rows_cleared = 4 -> Overflowing(Wide(15), FALSE)
      [] OTHER            -> LET shifted == shl1_u64(rows_cleared)
                             IN  Overflowing(WideDec(shifted.value), shifted.overflow)

\* The result of on_rows_cleared: the ScoreManager afterwards, the value
\* returned, whether save_high_score ran and whether the call panicked.
WideResult(s, points, saved, panic) ==
    [sm |-> s, points |-> points, saved |-> saved, panic |-> panic]

\* ScoreManager::on_rows_cleared.  A panic leaves the ScoreManager as the
\* statements before the arithmetic left it.
on_rows_cleared_u64(profile, s, rows_cleared) ==
    IF rows_cleared = 0 THEN WideResult(s, Wide(0), FALSE, FALSE)
    ELSE
    LET level_at_clear == s.level
        lines          == s.lines_cleared + rows_cleared
        counted        == [s EXCEPT !.lines_cleared = lines,
                                    !.level         = lines \div s.lines_per_level,
                                    !.combo_count   = s.combo_count + 1]
        rows_bonus     == rows_bonus_multiplier_u64(rows_cleared)
        previous       == s.current_multiplier
        combo          == shl1_u64(counted.combo_count - 1)
        p1             == mul_u64(s.base_points_per_row, rows_bonus.value)
        p2             == mul_u64(p1.value, previous)
        p3             == mul_u64(p2.value, combo.value)
        points         == mul_u64(p3.value, Wide(level_multiplier(level_at_clear)))
        new_score      == add_u64(s.score, points.value)
        overflow       == \/ rows_bonus.overflow \/ combo.overflow
                          \/ p1.overflow \/ p2.overflow \/ p3.overflow
                          \/ points.overflow \/ new_score.overflow
        new_high       == WideLess(s.high_score, new_score.value)
    IN  IF overflow /\ profile = "debug"
        THEN WideResult(counted, Wide(0), FALSE, TRUE)
        ELSE WideResult(
                 [counted EXCEPT
                      !.score                 = new_score.value,
                      !.high_score            = IF new_high THEN new_score.value ELSE @,
                      !.high_score_needs_sync = IF new_high THEN TRUE ELSE @,
                      !.current_multiplier    = as_u32(rows_bonus.value)],
                 points.value, new_high, FALSE)

\* ScoreManager::on_piece_landed_no_clear
on_piece_landed_no_clear_u64(s) ==
    [s EXCEPT !.current_multiplier = Wide(1), !.combo_count = 0]

(***************************************************************************)
(* Grid: locking cells and the cascade animation.  A grid is the record of *)
(* occupied_cells (data), cascading_cells and is_cascading.  The offset of *)
(* a cascading cell is progress * drop_distance * (velocity / 800.0) with  *)
(* progress = timer / 1.5 and drop_distance = (visible_height + 2) cells;  *)
(* offset_y holds its numerator timer * (visible_height + 2) * velocity,   *)
(* in units of 1 / (1500 * 800) cell.                                      *)
(***************************************************************************)
Grid_new == [data |-> NewTable, cascading_cells |-> << >>, is_cascading |-> FALSE]

\* for &(x, y, color) in cells, from the i-th cell on
RECURSIVE MarkLoop(_, _, _)
MarkLoop(d, cells, i) ==
    IF i > Len(cells) THEN d
    ELSE LET x     == cells[i][1]
             y     == cells[i][2]
             color == cells[i][3]
         IN  IF x >= 0 /\ x < width /\ y >= 0 /\ y < height
             THEN MarkLoop(set(d, x, y, color), cells, i + 1)
             ELSE MarkLoop(d, cells, i + 1)

\* Variant: a batch with a cell outside the grid is dropped as a whole.
mark_cells_occupied_AllOrNothing(d, cells) ==
    IF \A i \in DOMAIN cells : is_valid_position(cells[i][1], cells[i][2])
    THEN MarkLoop(d, cells, 1)
    ELSE d

\* Variant: the batch is written on a table of its own, the cells stored
\* before are lost.
mark_cells_occupied_Fresh(d, cells) == MarkLoop(NewTable, cells, 1)

\* Grid::mark_cells_occupied
mark_cells_occupied(d, cells) == MarkLoop(d, cells, 1)

\* let velocity = base_velocity * (1.0 - column_delay_factor)
CascadingCell(col, row, color) ==
    [col |-> col, row |-> row, color |-> color, offset_y |-> 0,
     velocity |-> 800 - 120 * col]

\* The orders in which a HashMap of columns may be iterated.  The order is
\* not fixed by the code; the model takes two of the possible orders.
HashOrders == {"ascending", "descending"}

\* row_map.iter() of row r in the given order, from column c on: the
\* columns stored in the row, whatever the width of the table
RECURSIVE IterRow(_, _, _, _)
IterRow(d, r, c, order) ==
    IF \A k \in DOMAIN d[r] : k < c THEN << >>
    ELSE LET here == IF c \in DOMAIN d[r]
                     THEN <<CascadingCell(c, r, d[r][c])>>
                     ELSE << >>
         IN  IF order = "ascending"
             THEN here \o IterRow(d, r, c + 1, order)
             ELSE IterRow(d, r, c + 1, order) \o here

\* for (col, row, color) in self.occupied_cells.iter(), from row r on
RECURSIVE IterRows(_, _, _)
IterRows(d, r, order) ==
    IF r >= height THEN << >>
    ELSE IterRow(d, r, 0, order) \o IterRows(d, r + 1, order)

\* Variant: the occupied cells stay in the table while they cascade.
start_cascade_animation_KeepCells(grid, order) ==
    [data            |-> grid.data,
     cascading_cells |-> IterRows(grid.data, 0, order),
     is_cascading    |-> TRUE]

\* Variant: the velocity is taken from the place of the cell in the list,
\* not from its column.
start_cascade_animation_ByPlace(grid, order) ==
    LET cells == IterRows(grid.data, 0, order)
    IN  [data            |-> clear(grid.data),
         cascading_cells |-> [i \in DOMAIN cells |->
                                 [cells[i] EXCEPT !.velocity = 800 - 120 * (i - 1)]],
         is_cascading    |-> TRUE]

\* Grid::start_cascade_animation
start_cascade_animation(grid, order) ==
    [data            |-> clear(grid.data),
     cascading_cells |-> IterRows(grid.data, 0, order),
     is_cascading    |-> TRUE]

\* progress is timer / LEVEL_TRANSITION_DURATION; timer is passed.
update_cascade_animation(grid, timer) ==
    IF ~grid.is_cascading THEN grid
    ELSE LET cells == grid.cascading_cells
         IN  [grid EXCEPT !.cascading_cells =
                 [i \in DOMAIN cells |->
                     [cells[i] EXCEPT !.offset_y =
                         timer * (VisibleHeight + 2) * cells[i].velocity]]]

clear_cascade_animation(grid) ==
    [grid EXCEPT !.is_cascading = FALSE, !.cascading_cells = << >>]

(***************************************************************************)
(* Game.  active_piece is << >> for None and <<p>> for Some(p); state is   *)
(* the record of the GameState's name and its timer in milliseconds.       *)
(***************************************************************************)
LEVEL_TRANSITION_DURATION == 1500

Playing == [name |-> "Playing", timer |-> 0]

LevelTransition(timer) == [name |-> "LevelTransition", timer |-> timer]

\* Game::new, given the high score that Storage::load_game_data returns
Game_new(loaded_high_score) ==
    [active_piece  |-> << >>,
     grid          |-> Grid_new,
     score_manager |-> new(loaded_high_score),
     state         |-> Playing,
     storage       |-> loaded_high_score]

spawn_new_piece(g, shape_index) ==
    [g EXCEPT !.active_piece =
        <<new_piece(SPAWN_VELOCITY, width \div 2, SPAWN_ROW, shape_index)>>]

\* Variant: the level transition starts the combo afresh.
start_level_transition_ResetCombo(g, order) ==
    [g EXCEPT !.state = LevelTransition(0),
              !.active_piece = << >>,
              !.grid = start_cascade_animation(@, order),
              !.score_manager = on_piece_landed_no_clear(@)]

\* Variant: the level transition starts without the cascade, the grid
\* keeps its cells.
start_level_transition_KeepGrid(g, order) ==
    [g EXCEPT !.state = LevelTransition(0),
              !.active_piece = << >>]

start_level_transition(g, order) ==
    [g EXCEPT !.state = LevelTransition(0),
              !.active_piece = << >>,
              !.grid = start_cascade_animation(@, order)]

\* What a frame did, beside the Game it leaves: the sounds requested and
\* the steps taken.  The steps hold the piece as it was handed to
\* piece.update, as it was before the downward movement and as
\* piece.update left it (each << >> in a frame that updates no piece), and
\* the calls made on the grid and on the score manager, in their order.
FrameResult(g, sounds, steps) == [game |-> g, sounds |-> sounds, steps |-> steps]

NoSteps ==
    [spawned |-> FALSE, updated |-> FALSE, locked |-> FALSE, cells |-> << >>,
     marked |-> NewTable, lines_cleared |-> 0, points |-> 0,
     level_up |-> FALSE, progress |-> 0,
     before |-> << >>, shifted |-> << >>, after |-> << >>, calls |-> << >>]

\* piece.get_occupied_cells_with_color()
get_occupied_cells_with_color(p) ==
    LET cells == get_occupied_cells(p)
    IN  [i \in DOMAIN cells |-> <<cells[i][1], cells[i][2], p.color>>]

\* Variant: the lines are cleared before the cells of the piece are
\* written.
LockPiece_ClearFirst(g, p, sounds, steps, order) ==
    LET cells_with_colors == get_occupied_cells_with_color(p)
        first         == clear_completed_lines(g.grid.data)
        marked        == mark_cells_occupied(first.data, cells_with_colors)
        c             == [first EXCEPT !.data = marked]
        lines_cleared == c.cleared_count
        old_level     == g.score_manager.level
        r             == on_rows_cleared(g.score_manager, lines_cleared)
        new_level     == r.sm.level
        locked        == [g EXCEPT !.active_piece = << >>,
                                   !.grid.data = c.data]
        mutator       == IF lines_cleared > 0 THEN "on_rows_cleared"
                         ELSE "on_piece_landed_no_clear"
        done          == [steps EXCEPT !.locked = TRUE,
                                       !.cells = cells_with_colors,
                                       !.marked = marked,
                                       !.lines_cleared = lines_cleared,
                                       !.calls = <<"clear_completed_lines",
                                                   "mark_cells_occupied",
                                                   mutator>>]
    IN  IF lines_cleared > 0
        THEN LET scored == [locked EXCEPT !.score_manager = r.sm,
                                          !.storage = IF r.saved THEN r.sm.high_score
                                                      ELSE @]
             IN  IF new_level > old_level
                 THEN FrameResult(start_level_transition(scored, order),
                                  sounds \o <<"bounce", "success", "level_up">>,
                                  [done EXCEPT !.points = r.points, !.level_up = TRUE,
                                               !.calls = @ \o <<"start_cascade_animation">>])
                 ELSE FrameResult(scored, sounds \o <<"bounce", "success">>,
                                  [done EXCEPT !.points = r.points])
        ELSE FrameResult([locked EXCEPT !.score_manager = on_piece_landed_no_clear(@)],
                         sounds \o <<"bounce">>, done)

\* Variant: every lock that clears lines starts the level transition.
LockPiece_EveryClear(g, p, sounds, steps, order) ==
    LET cells_with_colors == get_occupied_cells_with_color(p)
        marked        == mark_cells_occupied(g.grid.data, cells_with_colors)
        c             == clear_completed_lines(marked)
        lines_cleared == c.cleared_count
        old_level     == g.score_manager.level
        r             == on_rows_cleared(g.score_manager, lines_cleared)
        new_level     == r.sm.level
        locked        == [g EXCEPT !.active_piece = << >>,
                                   !.grid.data = c.data]
        mutator       == IF lines_cleared > 0 THEN "on_rows_cleared"
                         ELSE "on_piece_landed_no_clear"
        done          == [steps EXCEPT !.locked = TRUE,
                                       !.cells = cells_with_colors,
                                       !.marked = marked,
                                       !.lines_cleared = lines_cleared,
                                       !.calls = <<"mark_cells_occupied",
                                                   "clear_completed_lines",
                                                   mutator>>]
    IN  IF lines_cleared > 0
        THEN LET scored == [locked EXCEPT !.score_manager = r.sm,
                                          !.storage = IF r.saved THEN r.sm.high_score
                                                      ELSE @]
             IN  IF new_level >= old_level
                 THEN FrameResult(start_level_transition(scored, order),
                                  sounds \o <<"bounce", "success", "level_up">>,
                                  [done EXCEPT !.points = r.points, !.level_up = TRUE,
                                               !.calls = @ \o <<"start_cascade_animation">>])
                 ELSE FrameResult(scored, sounds \o <<"bounce", "success">>,
                                  [done EXCEPT !.points = r.points])
        ELSE FrameResult([locked EXCEPT !.score_manager = on_piece_landed_no_clear(@)],
                         sounds \o <<"bounce">>, done)

\* update, lines 93-160: the stopped piece is transferred to the grid
LockPiece(g, p, sounds, steps, order) ==
    LET cells_with_colors == get_occupied_cells_with_color(p)
        marked        == mark_cells_occupied(g.grid.data, cells_with_colors)
        c             == clear_completed_lines(marked)
        lines_cleared == c.cleared_count
        old_level     == g.score_manager.level
        r             == on_rows_cleared(g.score_manager, lines_cleared)
        new_level     == r.sm.level
        locked        == [g EXCEPT !.active_piece = << >>,
                                   !.grid.data = c.data]
        mutator       == IF lines_cleared > 0 THEN "on_rows_cleared"
                         ELSE "on_piece_landed_no_clear"
        done          == [steps EXCEPT !.locked = TRUE,
                                       !.cells = cells_with_colors,
                                       !.marked = marked,
                                       !.lines_cleared = lines_cleared,
                                       !.calls = <<"mark_cells_occupied",
                                                   "clear_completed_lines",
                                                   mutator>>]
    IN  IF lines_cleared > 0
        THEN LET scored == [locked EXCEPT !.score_manager = r.sm,
                                          !.storage = IF r.saved THEN r.sm.high_score
                                                      ELSE @]
             IN  IF new_level > old_level
                 THEN FrameResult(start_level_transition(scored, order),
                                  sounds \o <<"bounce", "success", "level_up">>,
                                  [done EXCEPT !.points = r.points, !.level_up = TRUE,
                                               !.calls = @ \o <<"start_cascade_animation">>])
                 ELSE FrameResult(scored, sounds \o <<"bounce", "success">>,
                                  [done EXCEPT !.points = r.points])
        ELSE FrameResult([locked EXCEPT !.score_manager = on_piece_landed_no_clear(@)],
                         sounds \o <<"bounce">>, done)

\* Variant: the piece is put back into active_piece after it was locked.
UpdatePlaying_KeepStopped(g, input, fixed_delta, shape_index, order) ==
    LET needs_spawn == g.active_piece = << >>
        spawned     == IF needs_spawn THEN spawn_new_piece(g, shape_index) ELSE g
        before      == spawned.active_piece[1]
        u           == IF ~before.stopped
                       THEN update(before, input, fixed_delta, spawned.grid.data)
                       ELSE [piece |-> before, rotated |-> before, shifted |-> before,
                             shuffles |-> 0]
        sounds      == IF u.shuffles > 0 THEN <<"shuffle">> ELSE << >>
        steps       == [NoSteps EXCEPT !.spawned = needs_spawn,
                                       !.updated = ~before.stopped,
                                       !.before = <<before>>,
                                       !.shifted = <<u.shifted>>,
                                       !.after = <<u.piece>>]
    IN  IF u.piece.stopped
        THEN [LockPiece(spawned, u.piece, sounds, steps, order)
                  EXCEPT !.game.active_piece = <<u.piece>>]
        ELSE FrameResult([spawned EXCEPT !.active_piece = <<u.piece>>], sounds, steps)

\* update, the arm GameState::Playing
UpdatePlaying(g, input, fixed_delta, shape_index, order) ==
    LET needs_spawn == g.active_piece = << >>
        spawned     == IF needs_spawn THEN spawn_new_piece(g, shape_index) ELSE g
        before      == spawned.active_piece[1]
        u           == IF ~before.stopped
                       THEN update(before, input, fixed_delta, spawned.grid.data)
                       ELSE [piece |-> before, rotated |-> before, shifted |-> before,
                             shuffles |-> 0]
        sounds      == IF u.shuffles > 0 THEN <<"shuffle">> ELSE << >>
        steps       == [NoSteps EXCEPT !.spawned = needs_spawn,
                                       !.updated = ~before.stopped,
                                       !.before = <<before>>,
                                       !.shifted = <<u.shifted>>,
                                       !.after = <<u.piece>>]
    IN  IF u.piece.stopped
        THEN LockPiece(spawned, u.piece, sounds, steps, order)
        ELSE FrameResult([spawned EXCEPT !.active_piece = <<u.piece>>], sounds, steps)

\* Variant: the transition ends one frame after the timer reaches the
\* duration.
UpdateLevelTransition_Late(g, fixed_delta) ==
    LET new_timer == g.state.timer + fixed_delta
    IN  IF g.state.timer >= LEVEL_TRANSITION_DURATION
        THEN FrameResult([g EXCEPT !.state = Playing,
                                   !.grid = clear_cascade_animation(@)],
                         << >>, NoSteps)
        ELSE FrameResult([g EXCEPT !.state = LevelTransition(new_timer),
                                   !.grid = update_cascade_animation(@, new_timer)],
                         << >>, [NoSteps EXCEPT !.progress = new_timer])

\* update, the arm GameState::LevelTransition
UpdateLevelTransition(g, fixed_delta) ==
    LET new_timer == g.state.timer + fixed_delta
    IN  IF new_timer >= LEVEL_TRANSITION_DURATION
        THEN FrameResult([g EXCEPT !.state = Playing,
                                   !.grid = clear_cascade_animation(@)],
                         << >>, NoSteps)
        ELSE FrameResult([g EXCEPT !.state = LevelTransition(new_timer),
                                   !.grid = update_cascade_animation(@, new_timer)],
                         << >>, [NoSteps EXCEPT !.progress = new_timer])

\* Game::update.  shape_index is the number rand::random_range returns if
\* the frame spawns a piece, order the iteration order of the hash maps if
\* the frame starts a cascade.
Game_update(g, input, fixed_delta, shape_index, order) ==
    IF g.state.name = "LevelTransition"
    THEN UpdateLevelTransition(g, fixed_delta)
    ELSE UpdatePlaying(g, input, fixed_delta, shape_index, order)

(***************************************************************************)
(* Specification of the scoring engine.  A run starts with some rounds of  *)
(* "clear one row, then land a piece without a clear", so that every level *)
(* bucket is within reach; the calls after these rounds are free and are   *)
(* recorded in trace.                                                      *)
(***************************************************************************)
MaxCalls == 4

MaxRowsCleared == 5

StoredHighScores == {0, 3000}

\* The numbers of opening rounds after which the free calls may start.
WarmUpRounds == {0, 49, 99, 149, 199}

MaxWarmUp == 199

\* The ScoreManager is not used by the grid specification.
ScoreIdle ==
    /\ sm = new(0)
    /\ smBefore = sm
    /\ storage = 0
    /\ saves = 0
    /\ trace = << >>
    /\ warmup = 0
    /\ build = "debug"

\* The piece is not used by the grid and scoring specifications.
PieceIdle ==
    /\ piece = new_piece(SPAWN_VELOCITY, width \div 2, SPAWN_ROW, 0)
    /\ pieceBefore = piece
    /\ ret = FALSE
    /\ shuffles = 0
    /\ rotations = << >>

\* The grid is not used by the scoring specification.
GridIdle ==
    /\ data = NewTable
    /\ dataBefore = NewTable
    /\ cleared = 0
    /\ iterations = 0

\* An input with no key down
NoInput == [rotate |-> FALSE, left |-> FALSE, right |-> FALSE, down |-> FALSE]

\* The record kept of a frame: its number, the pieces spawned so far, what it read (the input, the delta, the
\* shape index drawn), how long the direction it read has been held, the
\* direction that was held two frames earlier, the piece after the rotation
\* and after the horizontal step, the sounds requested and the steps taken
\* by Game::update.
Frame(number, pieces, input, fixed_delta, shape_index, held, released, rotated, shifted, sounds, steps) ==
    [number      |-> number,
     pieces      |-> pieces,
     input       |-> input,
     fixed_delta |-> fixed_delta,
     shape_index |-> shape_index,
     held        |-> held,
     released    |-> released,
     rotated     |-> rotated,
     shifted     |-> shifted,
     sounds      |-> sounds,
     steps       |-> steps]

NoFrame ==
    LET p == new_piece(SPAWN_VELOCITY, width \div 2, SPAWN_ROW, 0)
    IN  Frame(0, 0, NoInput, 0, 0, 0, 0, p, p, << >>, NoSteps)

\* The Game is not used by the specifications of its parts.
GameIdle ==
    /\ frame = NoFrame
    /\ game = Game_new(0)
    /\ gameBefore = game
    /\ twin = game

InitScore ==
    /\ MusicIdle
    /\ op = "init"
    /\ GameIdle
    /\ GridIdle
    /\ PieceIdle
    /\ \E h \in StoredHighScores :
           /\ sm = new(h)
           /\ storage = h
    /\ warmup = 0
    /\ build = "debug"
    /\ smBefore = sm
    /\ saves = 0
    /\ trace = << >>

\* An entry of trace: the call, its argument and returned points, level()
\* read before the call, multiplier() and combo_count() read after it.
Call(name, rows_cleared, points, before, after) ==
    [op         |-> name,
     rows       |-> rows_cleared,
     points     |-> points,
     level      |-> before.level,
     multiplier |-> after.current_multiplier,
     combo      |-> after.combo_count]

\* One opening round: on_rows_cleared(1), then on_piece_landed_no_clear().
WarmUpRound ==
    LET r == on_rows_cleared(sm, 1)
    IN  /\ trace = << >>
        /\ warmup < MaxWarmUp
        /\ op' = "warmup"
        /\ warmup' = warmup + 1
        /\ sm' = on_piece_landed_no_clear(r.sm)
        /\ smBefore' = sm'
        /\ storage' = IF r.saved THEN r.sm.high_score ELSE storage
        /\ saves' = IF r.saved THEN saves + 1 ELSE saves
        /\ UNCHANGED <<musicVars, trace, build, gridVars, pieceVars, gameVars>>

OnRowsCleared(rows_cleared) ==
    LET r == on_rows_cleared(sm, rows_cleared)
    IN  /\ Len(trace) < MaxCalls
        /\ warmup \in WarmUpRounds
        /\ op' = "on_rows_cleared"
        /\ smBefore' = sm
        /\ sm' = r.sm
        /\ storage' = IF r.saved THEN r.sm.high_score ELSE storage
        /\ saves' = IF r.saved THEN saves + 1 ELSE saves
        /\ trace' = Append(trace, Call("on_rows_cleared", rows_cleared, r.points,
                                        sm, r.sm))
        /\ UNCHANGED <<musicVars, warmup, build, gridVars, pieceVars, gameVars>>

OnPieceLandedNoClear ==
    /\ Len(trace) < MaxCalls
    /\ warmup \in WarmUpRounds
    /\ op' = "on_piece_landed_no_clear"
    /\ smBefore' = sm
    /\ sm' = on_piece_landed_no_clear(sm)
    /\ trace' = Append(trace, Call("on_piece_landed_no_clear", 0, 0,
                                    sm, on_piece_landed_no_clear(sm)))
    /\ UNCHANGED <<musicVars, storage, saves, warmup, build, gridVars, pieceVars, gameVars>>

NextScore ==
    \/ WarmUpRound
    \/ \E n \in 0 .. MaxRowsCleared : OnRowsCleared(n)
    \/ OnPieceLandedNoClear

SpecScore == InitScore /\ [][NextScore]_vars

(***************************************************************************)
(* Specification of the scoring engine at full width.  A run is compiled   *)
(* as a debug or a release build.  It opens with a combo: clears of one    *)
(* row with no landing in between, up to MaxCombo of them; the calls after *)
(* the combo are free, with the row counts of WideRows, and are recorded   *)
(* in trace.  A panic ends the run.                                        *)
(***************************************************************************)
MaxWideCalls == 2

MaxCombo == 60

WideRows == {1, 4, 33, 57, 64}

InitWide ==
    /\ MusicIdle
    /\ op = "init"
    /\ GameIdle
    /\ GridIdle
    /\ PieceIdle
    /\ build \in Builds
    /\ sm = new_u64(Wide(0))
    /\ smBefore = sm
    /\ storage = Wide(0)
    /\ saves = 0
    /\ trace = << >>
    /\ warmup = 0

\* An entry of trace: the call, its argument and the points it returned.
WideCall(name, rows_cleared, points) ==
    [op |-> name, rows |-> rows_cleared, points |-> points]

\* One more clear of the opening combo: on_rows_cleared(1).
ComboRound ==
    LET r == on_rows_cleared_u64(build, sm, 1)
    IN  /\ op # "panic"
        /\ trace = << >>
        /\ warmup < MaxCombo
        /\ op' = IF r.panic THEN "panic" ELSE "combo"
        /\ warmup' = warmup + 1
        /\ smBefore' = sm
        /\ sm' = r.sm
        /\ storage' = IF r.saved THEN r.sm.high_score ELSE storage
        /\ saves' = IF r.saved THEN saves + 1 ELSE saves
        /\ UNCHANGED <<musicVars, trace, build, gridVars, pieceVars, gameVars>>

WideRowsCleared(rows_cleared) ==
    LET r == on_rows_cleared_u64(build, sm, rows_cleared)
    IN  /\ op # "panic"
        /\ Len(trace) < MaxWideCalls
        /\ op' = IF r.panic THEN "panic" ELSE "on_rows_cleared"
        /\ smBefore' = sm
        /\ sm' = r.sm
        /\ storage' = IF r.saved THEN r.sm.high_score ELSE storage
        /\ saves' = IF r.saved THEN saves + 1 ELSE saves
        /\ trace' = Append(trace, WideCall("on_rows_cleared", rows_cleared, r.points))
        /\ UNCHANGED <<musicVars, warmup, build, gridVars, pieceVars, gameVars>>

WidePieceLandedNoClear ==
    /\ op # "panic"
    /\ Len(trace) < MaxWideCalls
    /\ op' = "on_piece_landed_no_clear"
    /\ smBefore' = sm
    /\ sm' = on_piece_landed_no_clear_u64(sm)
    /\ trace' = Append(trace, WideCall("on_piece_landed_no_clear", 0, Wide(0)))
    /\ UNCHANGED <<musicVars, storage, saves, warmup, build, gridVars, pieceVars, gameVars>>

NextWide ==
    \/ ComboRound
    \/ \E n \in WideRows : WideRowsCleared(n)
    \/ WidePieceLandedNoClear

SpecWide == InitWide /\ [][NextWide]_vars

(***************************************************************************)
(* Grids the line-clear specification starts from.  Every visible row is   *)
(* one of four shapes and every hidden row one of three; every cell is     *)
(* stamped with a color that names the place it starts at, so that a cell  *)
(* can be followed through a clear.                                        *)
(***************************************************************************)
Stamp(r, c) == 100 + r * width + c

RowShapes == {"empty", "full", "left", "right"}

HiddenRowShapes == {"empty", "full", "right"}

\* The assignments of a shape to every row
RowShapeChoices ==
    {f \in [Rows -> RowShapes] :
        \A r \in Rows : r < SPAWN_ROWS => f[r] \in HiddenRowShapes}

ShapeCols(s) ==
    CASE s = "empty" -> {}
      [] s = "full"  -> Cols
      [] s = "left"  -> {0}
      [] s = "right" -> Cols \ {0}

GridOfShapes(f) == [r \in Rows |-> [c \in ShapeCols(f[r]) |-> Stamp(r, c)]]

(***************************************************************************)
(* Specification of the line clear                                         *)
(***************************************************************************)
InitGrid ==
    /\ MusicIdle
    /\ op = "init"
    /\ GameIdle
    /\ \E f \in RowShapeChoices : data = GridOfShapes(f)
    /\ dataBefore = data
    /\ cleared = 0
    /\ iterations = 0
    /\ ScoreIdle
    /\ PieceIdle

ClearCompletedLines ==
    LET r == clear_completed_lines(data)
    IN  /\ op' = "clear_completed_lines"
        /\ dataBefore' = data
        /\ data' = r.data
        /\ cleared' = r.cleared_count
        /\ iterations' = r.iterations
        /\ UNCHANGED <<musicVars, scoreVars, pieceVars, gameVars>>

NextGrid == ClearCompletedLines

SpecGrid == InitGrid /\ [][NextGrid]_vars

(***************************************************************************)
(* Specification of the shape rotations: the two rotations of ShapeName    *)
(* applied in any order to a freshly spawned piece of every kind.          *)
(***************************************************************************)
MaxRotations == 5

ShapeIndexes == 0 .. 4

InitShape ==
    /\ MusicIdle
    /\ op = "init"
    /\ GameIdle
    /\ GridIdle
    /\ ScoreIdle
    /\ \E index \in ShapeIndexes :
           piece = new_piece(SPAWN_VELOCITY, width \div 2, SPAWN_ROW, index)
    /\ pieceBefore = piece
    /\ ret = FALSE
    /\ shuffles = 0
    /\ rotations = << >>

ShapeRotateClockwise ==
    /\ Len(rotations) < MaxRotations
    /\ op' = "rotate_clockwise"
    /\ pieceBefore' = piece
    /\ piece' = [piece EXCEPT !.dims = rotate_clockwise(piece.kind, piece.dims)]
    /\ rotations' = Append(rotations, [op |-> "rotate_clockwise", dims |-> piece.dims])
    /\ UNCHANGED <<musicVars, ret, shuffles, gridVars, scoreVars, gameVars>>

ShapeRotateCounterClockwise ==
    /\ Len(rotations) < MaxRotations
    /\ op' = "rotate_counter_clockwise"
    /\ pieceBefore' = piece
    /\ piece' = [piece EXCEPT !.dims = rotate_counter_clockwise(piece.kind, piece.dims)]
    /\ rotations' = Append(rotations, [op |-> "rotate_counter_clockwise", dims |-> piece.dims])
    /\ UNCHANGED <<musicVars, ret, shuffles, gridVars, scoreVars, gameVars>>

NextShape == ShapeRotateClockwise \/ ShapeRotateCounterClockwise

SpecShape == InitShape /\ [][NextShape]_vars

(***************************************************************************)
(* Specification of the piece queries: a piece of any kind, in any of its  *)
(* orientations, somewhere on a grid of PieceGrids; the rotation step of   *)
(* TetrisShapeNode::update and Grid::can_move_down are applied to it.      *)
(***************************************************************************)
AllCells == Cols \X Rows

\* mark_cells_occupied of the cells in S on a new table
GridOfCells(S) ==
    [r \in Rows |-> [c \in {x \in Cols : <<x, r>> \in S} |-> "COLOR_CYAN"]]

\* The grids a piece is tried on: the empty grid, the grids with one locked
\* cell, the grids with one full row, and the grids in which some columns
\* are filled from top to bottom (walls that leave wells between them).
PieceGrids ==
    {GridOfCells({})}
        \cup {GridOfCells({c}) : c \in AllCells}
        \cup {GridOfCells(Cols \X {r}) : r \in Rows}
        \cup {GridOfCells(C \X Rows) : C \in SUBSET Cols}

RECURSIVE Turn(_, _, _)
Turn(kind, dims, k) ==
    IF k = 0 THEN dims ELSE Turn(kind, rotate_clockwise(kind, dims), k - 1)

\* A piece the game can hold: inside the side walls and above the floor;
\* only a piece that was never rotated reaches above row 0.
PlacedPiece(index, x, y, k) ==
    LET p == new_piece(SPAWN_VELOCITY, x, y, index)
    IN  [p EXCEPT !.dims = Turn(p.kind, p.dims, k)]

Placeable(p, k) ==
    \A i \in DOMAIN p.dims :
        /\ p.cell_x + p.dims[i][1] \in Cols
        /\ p.cell_y + p.dims[i][2] < height
        /\ (k = 0 \/ p.cell_y + p.dims[i][2] >= 0)

InitPiece ==
    /\ MusicIdle
    /\ op = "init"
    /\ GameIdle
    /\ ScoreIdle
    /\ data \in PieceGrids
    /\ dataBefore = data
    /\ cleared = 0
    /\ iterations = 0
    /\ \E index \in ShapeIndexes, x \in Cols, y \in Rows, k \in 0 .. 3 :
           /\ Placeable(PlacedPiece(index, x, y, k), k)
           /\ piece = PlacedPiece(index, x, y, k)
    /\ pieceBefore = piece
    /\ ret = FALSE
    /\ shuffles = 0
    /\ rotations = << >>

\* TetrisShapeNode::update, the rotation step taken when rotate is pressed
RotatePressed ==
    LET r == rotate_clockwise_with_wall_kick(piece, data)
    IN  /\ op' = "rotate_clockwise_with_wall_kick"
        /\ pieceBefore' = piece
        /\ dataBefore' = data
        /\ piece' = r.piece
        /\ ret' = r.ok
        /\ shuffles' = IF r.ok THEN 1 ELSE 0
        /\ UNCHANGED <<musicVars, data, cleared, iterations, rotations, scoreVars, gameVars>>

CanMoveDown ==
    /\ op' = "can_move_down"
    /\ pieceBefore' = piece
    /\ dataBefore' = data
    /\ ret' = can_move_down(data, get_occupied_cells(piece))
    /\ shuffles' = 0
    /\ UNCHANGED <<musicVars, piece, data, cleared, iterations, rotations, scoreVars, gameVars>>

NextPiece == RotatePressed \/ CanMoveDown

SpecPiece == InitPiece /\ [][NextPiece]_vars

(***************************************************************************)
(* Specification of the writes to the grid: mark_cells_occupied is called  *)
(* MaxMarks times on a new grid, each time with the colored cells of a     *)
(* square or a straight piece whose pivot is in a corner of the grid or    *)
(* just outside it, so that a batch has cells inside the grid, outside     *)
(* it, or both.  frame records the number of the call, the batch and the   *)
(* map it left.                                                            *)
(***************************************************************************)
MaxMarks == 2

MarkPivots == {-1, 0, width - 1} \X {-1, 1, height - 1}

MarkBatches ==
    {get_occupied_cells_with_color(PlacedPiece(index, q[1], q[2], 0)) :
         index \in {0, 1}, q \in MarkPivots}

InitMark ==
    /\ MusicIdle
    /\ op = "init"
    /\ GameIdle
    /\ ScoreIdle
    /\ PieceIdle
    /\ GridIdle

MarkCellsOccupied ==
    \E cells \in MarkBatches :
        /\ frame.number < MaxMarks
        /\ op' = "mark_cells_occupied"
        /\ dataBefore' = data
        /\ data' = mark_cells_occupied(data, cells)
        /\ frame' = [NoFrame EXCEPT !.number = frame.number + 1,
                                    !.steps.cells = cells,
                                    !.steps.marked = data']
        /\ UNCHANGED <<musicVars, cleared, iterations, scoreVars, pieceVars, game, gameBefore,
                       twin>>

NextMark == MarkCellsOccupied

SpecMark == InitMark /\ [][NextMark]_vars

(***************************************************************************)
(* Specification of the piece's frame: a piece of any kind, as spawned by  *)
(* the game on a grid of UpdateGrids, is updated frame after frame, with   *)
(* an input of UpdateInputs and a delta of FrameDeltas, for MaxFrames      *)
(* frames or until it stops.                                               *)
(***************************************************************************)
MaxFrames == 5

FrameDeltas == {33, 104}

\* The inputs tried: no key, each direction, both directions, and a
\* direction together with rotate or with soft drop.
UpdateInputs ==
    {NoInput,
     [NoInput EXCEPT !.left = TRUE],
     [NoInput EXCEPT !.right = TRUE],
     [NoInput EXCEPT !.left = TRUE, !.right = TRUE],
     [NoInput EXCEPT !.rotate = TRUE, !.left = TRUE],
     [NoInput EXCEPT !.down = TRUE, !.right = TRUE]}

\* The empty grid and the grid whose left column is filled.
UpdateGrids == {GridOfCells({}), GridOfCells({0} \X Rows)}

\* The shapes a run starts with: the straight piece and the ell have a
\* cell above row 0 at their spawn position, the square and the tee have
\* none.
UpdateShapes == {0, 1, 2, 3}

InitUpdate ==
    /\ MusicIdle
    /\ op = "init"
    /\ ScoreIdle
    /\ GameIdle
    /\ data \in UpdateGrids
    /\ dataBefore = data
    /\ cleared = 0
    /\ iterations = 0
    /\ \E index \in UpdateShapes :
           piece = new_piece(SPAWN_VELOCITY, width \div 2, SPAWN_ROW, index)
    /\ pieceBefore = piece
    /\ ret = FALSE
    /\ shuffles = 0
    /\ rotations = << >>

\* The time the direction read by a frame has been held since the frame
\* that read it first.
Held(p, input, fixed_delta, held) ==
    IF Direction(input) # 0 /\ Direction(input) = p.last_direction
    THEN held + fixed_delta
    ELSE 0

\* Game::update calls piece.update only while the piece is not stopped.
UpdateFrame ==
    /\ ~piece.stopped
    /\ frame.number < MaxFrames
    /\ \E input \in UpdateInputs, fixed_delta \in FrameDeltas :
         \E u \in {update(piece, input, fixed_delta, data)} :
             /\ op' = "update"
             /\ pieceBefore' = piece
             /\ dataBefore' = data
             /\ piece' = u.piece
             /\ shuffles' = u.shuffles
             /\ frame' = Frame(frame.number + 1, 0, input, fixed_delta, 0,
                               Held(piece, input, fixed_delta, frame.held),
                               pieceBefore.last_direction,
                               u.rotated, u.shifted, << >>, NoSteps)
             /\ UNCHANGED <<musicVars, data, cleared, iterations, ret, rotations, scoreVars,
                            game, gameBefore, twin>>

NextUpdate == UpdateFrame

SpecUpdate == InitUpdate /\ [][NextUpdate]_vars

(***************************************************************************)
(* Specification of the fall: a piece, as spawned by the game on a grid of *)
(* FallGrids, is updated frame after frame with an input of FallInputs and *)
(* a delta of FallDeltas, for MaxFallFrames frames or until it stops.  The *)
(* shorter delta is less than an interval of the soft drop and the longer  *)
(* one holds two, so a frame takes no step, one step or several; on the    *)
(* grid whose spawn column is filled a piece is spawned onto other cells.  *)
(***************************************************************************)
MaxFallFrames == 5

FallDeltas == {104, 233}

FallInputs ==
    {NoInput,
     [NoInput EXCEPT !.down = TRUE],
     [NoInput EXCEPT !.down = TRUE, !.right = TRUE]}

\* The grids of UpdateGrids and the grid whose spawn column is filled.
FallGrids == UpdateGrids \cup {GridOfCells({width \div 2} \X Rows)}

\* The straight piece and the ell have a cell above row 0 at the spawn
\* position, the square has none.
FallShapes == {0, 1, 3}

InitFall ==
    /\ MusicIdle
    /\ op = "init"
    /\ ScoreIdle
    /\ GameIdle
    /\ data \in FallGrids
    /\ dataBefore = data
    /\ cleared = 0
    /\ iterations = 0
    /\ \E index \in FallShapes :
           piece = new_piece(SPAWN_VELOCITY, width \div 2, SPAWN_ROW, index)
    /\ pieceBefore = piece
    /\ ret = FALSE
    /\ shuffles = 0
    /\ rotations = << >>

\* One call of piece.update, made as Game::update makes it: only while the
\* piece is not stopped.
FallFrame ==
    /\ ~piece.stopped
    /\ frame.number < MaxFallFrames
    /\ \E input \in FallInputs, fixed_delta \in FallDeltas :
         \E u \in {update(piece, input, fixed_delta, data)} :
             /\ op' = "fall"
             /\ pieceBefore' = piece
             /\ dataBefore' = data
             /\ piece' = u.piece
             /\ shuffles' = u.shuffles
             /\ frame' = Frame(frame.number + 1, 0, input, fixed_delta, 0,
                               Held(piece, input, fixed_delta, frame.held),
                               pieceBefore.last_direction,
                               u.rotated, u.shifted, << >>, NoSteps)
             /\ UNCHANGED <<musicVars, data, cleared, iterations, ret, rotations, scoreVars,
                            game, gameBefore, twin>>

NextFall == FallFrame

SpecFall == InitFall /\ [][NextFall]_vars

(***************************************************************************)
(* Specification of the game: Game::update is called frame after frame     *)
(* with an input of GameInputs and the delta GameDelta.  MaxGameFrames     *)
(* bounds the frames of play; a level transition that has started runs to  *)
(* its end whatever the count.  A run starts from a new Game or from a     *)
(* Game in the middle of play: nine single lines cleared, two squares      *)
(* locked at the bottom with the spawn column free between them, or no     *)
(* line cleared and straight pieces standing beside the spawn column, or   *)
(* the two squares after a combo of nine single lines, or the empty grid   *)
(* at level 1 that the level transition after the tenth leaves.            *)
(* twin is a second Game that starts in the same state and is given the    *)
(* same inputs, deltas and shape indexes.                                  *)
(***************************************************************************)
MaxGameFrames == 4

GameDelta == 517

GameInputs ==
    {NoInput,
     [NoInput EXCEPT !.left = TRUE],
     [NoInput EXCEPT !.right = TRUE],
     [NoInput EXCEPT !.rotate = TRUE],
     [NoInput EXCEPT !.down = TRUE]}

\* The ScoreManager after rounds clears of one line, each followed by a
\* lock without a clear.
RECURSIVE ScoreAfterRounds(_, _)
ScoreAfterRounds(s, rounds) ==
    IF rounds = 0 THEN s
    ELSE ScoreAfterRounds(on_piece_landed_no_clear(on_rows_cleared(s, 1).sm),
                          rounds - 1)

\* The grid after a square has been locked in each bottom corner.
TwoSquares ==
    LET left  == [new_piece(SPAWN_VELOCITY, 0, height - 2, 1) EXCEPT !.stopped = TRUE]
        right == [left EXCEPT !.cell_x = width - 2]
    IN  mark_cells_occupied(
            mark_cells_occupied(NewTable, get_occupied_cells_with_color(left)),
            get_occupied_cells_with_color(right))

MidGame ==
    LET s == ScoreAfterRounds(new(0), 9)
    IN  [Game_new(0) EXCEPT !.grid.data = TwoSquares,
                            !.score_manager = s,
                            !.storage = s.high_score]

\* A game in which a straight piece stands in the four bottom rows of every
\* column but the spawn column, and no line has been cleared yet.
WellGame ==
    [Game_new(0) EXCEPT
        !.grid.data = GridOfCells((Cols \ {width \div 2})
                                      \X ((height - 4) .. (height - 1)))]

\* The ScoreManager after clears of one line by locks that follow each
\* other.
RECURSIVE ScoreAfterCombo(_, _)
ScoreAfterCombo(s, clears) ==
    IF clears = 0 THEN s
    ELSE ScoreAfterCombo(on_rows_cleared(s, 1).sm, clears - 1)

\* The game in the middle of play after a combo of nine single lines.
ComboGame ==
    LET s == ScoreAfterCombo(new(0), 9)
    IN  [MidGame EXCEPT !.score_manager = s, !.storage = s.high_score]

\* The game as the level transition after the tenth line of that combo
\* leaves it: in Playing at level 1, with an empty grid and no piece.
LevelOneGame ==
    LET s == on_rows_cleared(ComboGame.score_manager, 1).sm
    IN  [Game_new(0) EXCEPT !.score_manager = s, !.storage = s.high_score]

GameStarts == {Game_new(0), MidGame, WellGame, ComboGame, LevelOneGame}

InitGame ==
    /\ MusicIdle
    /\ op = "init"
    /\ GridIdle
    /\ ScoreIdle
    /\ PieceIdle
    /\ frame = NoFrame
    /\ game \in GameStarts
    /\ gameBefore = game
    /\ twin = game

\* The shape indexes a frame may draw: rand::random_range is called only
\* by a frame that spawns a piece.
SpawnChoices(g) ==
    IF g.state.name = "Playing" /\ g.active_piece = << >>
    THEN ShapeIndexes
    ELSE {0}

\* The hash orders a frame may meet: the maps are iterated only by a frame
\* that starts a cascade.
OrderChoices(r) == IF r.steps.level_up THEN HashOrders ELSE {"ascending"}

\* One call of Game::update on game and on twin.  The results are bound
\* once each; a frame that starts no cascade iterates no hash map, so it
\* has a single order to meet.
GameFrame ==
    /\ frame.number < MaxGameFrames \/ game.state.name = "LevelTransition"
    /\ \E input \in GameInputs, shape_index \in SpawnChoices(game) :
         \E r0 \in {Game_update(game, input, GameDelta, shape_index, "ascending")} :
         \E t0 \in {IF twin = game THEN r0
                    ELSE Game_update(twin, input, GameDelta, shape_index,
                                     "ascending")} :
         \E order \in OrderChoices(r0), twin_order \in OrderChoices(t0) :
         \E r \in {IF order = "ascending" THEN r0
                   ELSE Game_update(game, input, GameDelta, shape_index, order)} :
         \E t \in {IF twin_order = "ascending" THEN t0
                   ELSE Game_update(twin, input, GameDelta, shape_index,
                                    twin_order)} :
             /\ op' = "frame"
             /\ gameBefore' = game
             /\ game' = r.game
             /\ twin' = t.game
             /\ frame' = Frame(frame.number + 1,
                               frame.pieces + IF r.steps.spawned THEN 1 ELSE 0,
                               input, GameDelta, shape_index, 0, 0,
                               NoFrame.rotated, NoFrame.shifted,
                               r.sounds, r.steps)
             /\ UNCHANGED <<musicVars, gridVars, scoreVars, pieceVars>>

NextGame == GameFrame

SpecGame == InitGame /\ [][NextGame]_vars

(***************************************************************************)
(* Specification of the level transition: a run starts where              *)
(* start_level_transition leaves the game, after the lock that cleared the *)
(* tenth line, over a grid that is empty or holds a filled column or the   *)
(* two squares, met in either hash order; Game::update is then called      *)
(* with a delta of TransitionDeltas until the game is in Playing.  The     *)
(* main loop calls Game::update in every frame it draws, so a frame that   *)
(* can be taken is taken.                                                  *)
(***************************************************************************)
TransitionDeltas == {104, 301, GameDelta}

TransitionStarts ==
    LET s == on_rows_cleared(MidGame.score_manager, 1).sm
    IN  {start_level_transition(
             [MidGame EXCEPT !.grid.data = d, !.score_manager = s,
                             !.storage = s.high_score],
             order) : d \in UpdateGrids \cup {TwoSquares}, order \in HashOrders}

InitTransition ==
    /\ MusicIdle
    /\ op = "init"
    /\ GridIdle
    /\ ScoreIdle
    /\ PieceIdle
    /\ frame = NoFrame
    /\ game \in TransitionStarts
    /\ gameBefore = game
    /\ twin = game

TransitionFrame ==
    /\ game.state.name = "LevelTransition"
    /\ \E fixed_delta \in TransitionDeltas :
         \E r \in {Game_update(game, NoInput, fixed_delta, 0, "ascending")} :
             /\ op' = "frame"
             /\ gameBefore' = game
             /\ game' = r.game
             /\ twin' = r.game
             /\ frame' = Frame(frame.number + 1, 0, NoInput, fixed_delta, 0, 0, 0,
                               NoFrame.rotated, NoFrame.shifted, r.sounds, r.steps)
             /\ UNCHANGED <<musicVars, gridVars, scoreVars, pieceVars>>

SpecTransition ==
    InitTransition /\ [][TransitionFrame]_vars /\ WF_vars(TransitionFrame)

(***************************************************************************)
(* Specification of the cascade on the playfield of the game.  Game::new   *)
(* builds the grid GRID_WIDTH_CELLS columns wide; a run starts with a      *)
(* table of that width (in the rows of the model), starts the level        *)
(* transition on it, in either hash order, and is then updated with a      *)
(* delta of TransitionDeltas until the game is in Playing.                 *)
(***************************************************************************)
GRID_WIDTH_CELLS == 10

\* mark_cells_occupied of the cells in S on a new table of the playfield
PlayfieldTable(S) ==
    [r \in Rows |->
        [c \in {x \in 0 .. (GRID_WIDTH_CELLS - 1) : <<x, r>> \in S} |-> "COLOR_CYAN"]]

\* The tables a cascade starts on: the bottom row filled, a stair that
\* rises to the right, one cell in each of two columns next to each other,
\* and the right-hand column filled.
CascadeGrids ==
    {PlayfieldTable((0 .. (GRID_WIDTH_CELLS - 1)) \X {height - 1}),
     PlayfieldTable({<<c, r>> \in (0 .. (GRID_WIDTH_CELLS - 1)) \X Rows :
                         r = height - 1 - (c \div 3)}),
     PlayfieldTable({<<6, height - 1>>, <<7, height - 1>>}),
     PlayfieldTable({GRID_WIDTH_CELLS - 1} \X (SPAWN_ROWS .. (height - 1)))}

InitCascade ==
    /\ MusicIdle
    /\ op = "init"
    /\ GridIdle
    /\ ScoreIdle
    /\ PieceIdle
    /\ frame = NoFrame
    /\ \E d \in CascadeGrids, s \in {on_rows_cleared(MidGame.score_manager, 1).sm} :
           game = [Game_new(0) EXCEPT !.grid.data = d, !.score_manager = s,
                                      !.storage = s.high_score]
    /\ gameBefore = game
    /\ twin = game

\* start_level_transition, called by the lock that raised the level
StartCascade ==
    /\ op = "init"
    /\ game.state = Playing
    /\ \E order \in HashOrders :
           /\ op' = "start_level_transition"
           /\ gameBefore' = game
           /\ game' = start_level_transition(game, order)
           /\ twin' = game'
           /\ UNCHANGED <<musicVars, frame, gridVars, scoreVars, pieceVars>>

NextCascade == StartCascade \/ TransitionFrame

SpecCascade == InitCascade /\ [][NextCascade]_vars

(***************************************************************************)
(* Storage.  GAME_DATA_CACHE is << >> for None and <<h>> for Some of a     *)
(* GameData with high_score h; the file (localStorage on the web) is << >> *)
(* when it is missing or cannot be read, and <<h>> otherwise.  Whether a   *)
(* write succeeds is up to the platform: write_ok is an argument.          *)
(***************************************************************************)
\* Storage::load_game_data: the data returned and the storage afterwards
load_game_data(st) ==
    IF st.cache # << >>
    THEN [data |-> st.cache[1], storage |-> st]
    ELSE LET game_data == IF st.file # << >> THEN st.file[1] ELSE 0
         IN  [data |-> game_data, storage |-> [st EXCEPT !.cache = <<game_data>>]]

\* Variant: the cache is updated only when the write succeeded.
save_game_data_CacheOnSuccess(st, game_data, write_ok) ==
    IF write_ok THEN [cache |-> <<game_data>>, file |-> <<game_data>>] ELSE st

\* Storage::save_game_data
save_game_data(st, game_data, write_ok) ==
    [cache |-> <<game_data>>,
     file  |-> IF write_ok THEN <<game_data>> ELSE st.file]

(***************************************************************************)
(* Specification of the storage over the games of one process.  A run      *)
(* starts with the first game: ScoreManager::new has loaded the high score *)
(* of a file that is missing or holds one of StoredHighScores.  The game   *)
(* then receives the calls of the locks; on_rows_cleared saves a new high  *)
(* score, and the write succeeds or fails.  A game over saves the score if *)
(* it is above the high score, and Game::new (Enter, R or Retry in         *)
(* main.rs) starts the next game.  trace records the saves.  A run has at  *)
(* most MaxGames games and MaxSaves saves, and a game clears lines until   *)
(* it has cleared MaxStorageLines.                                         *)
(***************************************************************************)
MaxSaves == 3

MaxGames == 3

MaxStorageLines == 3

StorageRows == {1, 2}

InitStorage ==
    /\ MusicIdle
    /\ op = "init"
    /\ GameIdle
    /\ GridIdle
    /\ PieceIdle
    /\ \E file \in {<< >>} \cup {<<h>> : h \in StoredHighScores} :
       \E l \in {load_game_data([cache |-> << >>, file |-> file])} :
           /\ sm = new(l.data)
           /\ storage = l.storage
    /\ smBefore = sm
    /\ saves = 0
    /\ warmup = 1
    /\ build = "debug"
    /\ trace = << >>

\* The storage after the save, if any, of ScoreManager s, and the trace
\* with the save added.
Saved(saved, s, write_ok) ==
    IF saved
    THEN [storage |-> save_game_data(storage, s.high_score, write_ok),
          trace   |-> Append(trace, [high_score |-> s.high_score,
                                      written    |-> write_ok])]
    ELSE [storage |-> storage, trace |-> trace]

\* A lock that cleared rows_cleared lines
StorageRowsCleared ==
    /\ op # "game_over"
    /\ Len(trace) < MaxSaves
    /\ sm.lines_cleared < MaxStorageLines
    /\ \E rows_cleared \in StorageRows, write_ok \in BOOLEAN :
       \E r \in {on_rows_cleared(sm, rows_cleared)} :
       \E w \in {Saved(r.saved, r.sm, write_ok)} :
           /\ op' = "on_rows_cleared"
           /\ smBefore' = sm
           /\ sm' = r.sm
           /\ storage' = w.storage
           /\ trace' = w.trace
           /\ saves' = Len(w.trace)
           /\ UNCHANGED <<musicVars, warmup, build, gridVars, pieceVars, gameVars>>

\* A lock that cleared no line
StoragePieceLanded ==
    /\ op = "on_rows_cleared"
    /\ op' = "on_piece_landed_no_clear"
    /\ smBefore' = sm
    /\ sm' = on_piece_landed_no_clear(sm)
    /\ UNCHANGED <<musicVars, storage, trace, saves, warmup, build, gridVars, pieceVars,
                   gameVars>>

\* main.rs, lines 336-351: the game is over
GameOver ==
    /\ op # "game_over"
    /\ \E write_ok \in BOOLEAN :
       \E s \in {IF sm.score > sm.high_score
                 THEN [sm EXCEPT !.high_score = sm.score,
                                 !.high_score_needs_sync = FALSE]
                 ELSE sm} :
       \E w \in {Saved(sm.score > sm.high_score, s, write_ok)} :
           /\ op' = "game_over"
           /\ smBefore' = sm
           /\ sm' = s
           /\ storage' = w.storage
           /\ trace' = w.trace
           /\ saves' = Len(w.trace)
           /\ UNCHANGED <<musicVars, warmup, build, gridVars, pieceVars, gameVars>>

\* Game::new: the ScoreManager of the next game
Restart ==
    /\ warmup < MaxGames
    /\ \E l \in {load_game_data(storage)} :
           /\ op' = "new"
           /\ smBefore' = sm
           /\ sm' = new(l.data)
           /\ storage' = l.storage
           /\ warmup' = warmup + 1
           /\ UNCHANGED <<musicVars, trace, saves, build, gridVars, pieceVars, gameVars>>

NextStorage ==
    \/ StorageRowsCleared
    \/ StoragePieceLanded
    \/ GameOver
    \/ Restart

SpecStorage == InitStorage /\ [][NextStorage]_vars

(***************************************************************************)
(* Properties of the line clear                                            *)
(***************************************************************************)
\* A row is full iff it holds exactly width distinct occupied columns.
RowIsFull(d, r) == Cardinality(DOMAIN d[r]) = width

VisibleRows == SPAWN_ROWS .. (height - 1)

HiddenRows == 0 .. (SPAWN_ROWS - 1)

FullVisibleRows(d) == {r \in VisibleRows : RowIsFull(d, r)}

OccupiedCount(d) == Cardinality({p \in Cols \X Rows : p[1] \in DOMAIN d[p[2]]})

JustCleared == op = "clear_completed_lines"

\* What a clear of the single row r leaves behind.
SingleRowCleared(r) ==
    /\ cleared = 1
    /\ \A row \in 1 .. r : data[row] = dataBefore[row - 1]
    /\ \A row \in (r + 1) .. (height - 1) : data[row] = dataBefore[row]
    /\ data[0] = EmptyRow

\* C1 as stated: for any grid in which exactly one visible row r is full,
\* clear_completed_lines returns 1, every cell that was above r is one row
\* lower in the same column with its color, every cell below r is unchanged
\* and row 0 is empty.
C1_AsStated ==
    (JustCleared /\ Cardinality(FullVisibleRows(dataBefore)) = 1)
        => \A r \in FullVisibleRows(dataBefore) : SingleRowCleared(r)

\* C1 (amended): the same, for the grids in which exactly one visible row r
\* is full and the lowest hidden row (SPAWN_ROWS - 1) is not full.
C1_SingleLineClear ==
    (/\ JustCleared
     /\ Cardinality(FullVisibleRows(dataBefore)) = 1
     /\ ~RowIsFull(dataBefore, SPAWN_ROWS - 1))
        => \A r \in FullVisibleRows(dataBefore) : SingleRowCleared(r)

C1_Witness ==
    /\ JustCleared
    /\ FullVisibleRows(dataBefore) = {height - 2}
    /\ ~RowIsFull(dataBefore, SPAWN_ROWS - 1)
    /\ RowIsFull(dataBefore, SPAWN_ROWS - 2)
    /\ dataBefore[height - 3] # EmptyRow
    /\ dataBefore[height - 1] # EmptyRow
    /\ cleared = 1
    /\ data[height - 2] = dataBefore[height - 3]

\* The rows of the grid that are cleared below row r when exactly the full
\* visible rows are removed.
ClearedBelow(d, r) == Cardinality({q \in FullVisibleRows(d) : q > r})

Survivors(d) == {r \in Rows : r \notin FullVisibleRows(d)}

\* Every surviving row moved down by the number of cleared rows below it,
\* with its columns and colors and in the same vertical order; the rows left
\* free at the top are empty.
SurvivorsShifted ==
    LET target == [r \in Rows |-> r + ClearedBelow(dataBefore, r)]
        kept   == Survivors(dataBefore)
    IN  /\ \A r \in kept : data[target[r]] = dataBefore[r]
        /\ \A r1, r2 \in kept : r1 < r2 => target[r1] < target[r2]
        /\ \A r \in Rows : r \notin {target[q] : q \in kept} => data[r] = EmptyRow

\* C2 as stated: for any grid with k full visible rows one call returns k
\* and every surviving cell moves down by the number of cleared rows below
\* it, keeping column, color and vertical order.
C2_AsStated ==
    JustCleared =>
        /\ cleared = Cardinality(FullVisibleRows(dataBefore))
        /\ SurvivorsShifted

\* The hidden rows that k removals bring into the visible range.
BroughtIntoView(k) == {h \in HiddenRows : h + k >= SPAWN_ROWS}

\* C2 (amended): for any grid with k full visible rows, none of the hidden
\* rows SPAWN_ROWS-k .. SPAWN_ROWS-1 being full, one call returns k and every
\* surviving cell moves down by the number of cleared rows below it, keeping
\* column, color and vertical order.
C2_MultiRowClear ==
    (/\ JustCleared
     /\ \A h \in BroughtIntoView(Cardinality(FullVisibleRows(dataBefore))) :
            ~RowIsFull(dataBefore, h))
        => /\ cleared = Cardinality(FullVisibleRows(dataBefore))
           /\ SurvivorsShifted

\* Four full rows in one call, with surviving cells above them.
C2_Witness ==
    /\ JustCleared
    /\ Cardinality(FullVisibleRows(dataBefore)) = 4
    /\ \A h \in HiddenRows : ~RowIsFull(dataBefore, h)
    /\ dataBefore[SPAWN_ROWS - 1] # EmptyRow
    /\ dataBefore[SPAWN_ROWS - 2] # EmptyRow
    /\ cleared = 4
    /\ data[SPAWN_ROWS + 3] = dataBefore[SPAWN_ROWS - 1]
    /\ data[SPAWN_ROWS + 2] = dataBefore[SPAWN_ROWS - 2]

\* C3: after clear_completed_lines no visible row is full, the returned
\* count is the number of rows removed (the occupied cells decrease by
\* width times the count), and the loop ends after one iteration per
\* visible row plus one per removed row.
C3_RecheckPostCondition ==
    JustCleared =>
        /\ FullVisibleRows(data) = {}
        /\ OccupiedCount(dataBefore) - OccupiedCount(data) = width * cleared
        /\ iterations = VisibleHeight + cleared

\* A full hidden row came into view during the call and was removed too.
C3_Witness ==
    /\ JustCleared
    /\ cleared > Cardinality(FullVisibleRows(dataBefore))
    /\ Cardinality(FullVisibleRows(dataBefore)) >= 1
    /\ FullVisibleRows(data) = {}

(***************************************************************************)
(* Properties of the scoring engine                                        *)
(***************************************************************************)
RECURSIVE TwoToThe(_)
TwoToThe(n) == IF n = 0 THEN 1 ELSE 2 * TwoToThe(n - 1)

\* rowsBonus: 1, 3, 7, 15 for n = 1..4 and 2^n - 1 above
RowsBonus(n) ==
    IF n = 1 THEN 1 ELSE IF n = 2 THEN 3 ELSE IF n = 3 THEN 7
    ELSE IF n = 4 THEN 15 ELSE TwoToThe(n) - 1

\* levelMultiplier buckets 0-4:1, 5-9:2, 10-14:3, 15-19:5, >=20:8
LevelBucket(l) ==
    IF l <= 4 THEN 1 ELSE IF l <= 9 THEN 2 ELSE IF l <= 14 THEN 3
    ELSE IF l <= 19 THEN 5 ELSE 8

LastCall == trace[Len(trace)]

JustScored ==
    /\ op = "on_rows_cleared"
    /\ Len(trace) > 0
    /\ LastCall.rows >= 1

\* C4: on_rows_cleared(n), n >= 1, returns 137 x rowsBonus(n) x the
\* multiplier before the call x 2^(combo count after the increment - 1) x
\* the level multiplier of the level before the call.
C4_ScoringFormula ==
    JustScored =>
        /\ sm.combo_count = smBefore.combo_count + 1
        /\ LastCall.points =
               137 * RowsBonus(LastCall.rows) * smBefore.current_multiplier
                   * TwoToThe(sm.combo_count - 1) * LevelBucket(smBefore.level)

\* A five-row clear at level 20 as third clear of a combo.
C4_Witness ==
    /\ JustScored
    /\ LastCall.rows = 5
    /\ smBefore.level >= 20
    /\ smBefore.current_multiplier = 15
    /\ sm.combo_count = 3
    /\ LastCall.points = 137 * 31 * 15 * 4 * 8

IsClear(i) == trace[i].op = "on_rows_cleared" /\ trace[i].rows >= 1

\* C5: after on_rows_cleared(n) the multiplier is rowsBonus(n) and it is the
\* previous multiplier of the next clear; from a fresh session a single-row
\* clear awards 137 (multiplier 1, combo 1), and two four-row clears in a
\* row award 2055 and then 61650 with combo 2.
C5_CompoundingMultiplier ==
    /\ JustScored => sm.current_multiplier = RowsBonus(LastCall.rows)
    /\ \A i \in 1 .. (Len(trace) - 1) :
           (IsClear(i) /\ IsClear(i + 1)) =>
               trace[i + 1].points =
                   137 * RowsBonus(trace[i + 1].rows) * RowsBonus(trace[i].rows)
                       * TwoToThe(trace[i + 1].combo - 1)
                       * LevelBucket(trace[i + 1].level)
    /\ (warmup = 0 /\ Len(trace) = 1 /\ IsClear(1) /\ trace[1].rows = 1) =>
           /\ trace[1].points = 137
           /\ sm.current_multiplier = 1
           /\ sm.combo_count = 1
    /\ (/\ warmup = 0 /\ Len(trace) = 2
        /\ IsClear(1) /\ trace[1].rows = 4
        /\ IsClear(2) /\ trace[2].rows = 4) =>
           /\ trace[1].points = 2055
           /\ trace[1].multiplier = 15
           /\ trace[2].points = 61650
           /\ sm.combo_count = 2

C5_Witness ==
    /\ warmup = 0
    /\ Len(trace) = 2
    /\ IsClear(1) /\ trace[1].rows = 4
    /\ IsClear(2) /\ trace[2].rows = 4
    /\ sm.score = 2055 + 61650

\* C6: on_piece_landed_no_clear leaves multiplier 1 and combo count 0 and
\* changes neither score, lines, level nor high score; the clear that
\* follows it is scored with previous multiplier 1 and combo multiplier 1.
C6_ComboReset ==
    /\ op = "on_piece_landed_no_clear" =>
           /\ sm.current_multiplier = 1
           /\ sm.combo_count = 0
           /\ sm.score = smBefore.score
           /\ sm.lines_cleared = smBefore.lines_cleared
           /\ sm.level = smBefore.level
           /\ sm.high_score = smBefore.high_score
    /\ \A i \in 1 .. (Len(trace) - 1) :
           (trace[i].op = "on_piece_landed_no_clear" /\ IsClear(i + 1)) =>
               /\ trace[i + 1].points =
                      137 * RowsBonus(trace[i + 1].rows) * LevelBucket(trace[i + 1].level)
               /\ trace[i + 1].combo = 1

\* Two four-row clears, a lock without a clear, and a clear scored afresh.
C6_Witness ==
    /\ Len(trace) = 4
    /\ IsClear(1) /\ trace[1].rows = 4
    /\ IsClear(2) /\ trace[2].multiplier = 15 /\ trace[2].combo = 2
    /\ trace[3].op = "on_piece_landed_no_clear"
    /\ IsClear(4) /\ trace[4].rows = 4
    /\ trace[4].level >= 5
    /\ trace[4].points = 137 * 15 * LevelBucket(trace[4].level)

(***************************************************************************)
(* Properties of the shape rotations                                       *)
(***************************************************************************)
\* The state of the offsets after the i-th rotation of the run
DimsAfter(i) == IF i = Len(rotations) THEN piece.dims ELSE rotations[i + 1].dims

\* C7: for every gameplay piece in every orientation reached by rotations,
\* a clockwise rotation followed by a counter-clockwise one, and the
\* reverse, restores the ordered list of offsets; each rotation alone
\* leaves the square piece unchanged; the list always has four entries.
C7_RotationRoundTrip ==
    /\ Len(piece.dims) = 4
    /\ \A i \in 1 .. (Len(rotations) - 1) :
           rotations[i].op # rotations[i + 1].op
               => DimsAfter(i + 1) = rotations[i].dims
    /\ piece.kind = "Square" =>
           \A i \in 1 .. Len(rotations) : DimsAfter(i) = rotations[i].dims

\* A piece turned away from its spawn orientation, rotated once more and
\* then rotated back.
C7_Witness ==
    /\ Len(rotations) = 4
    /\ piece.kind = "Ell"
    /\ rotations[1].op = "rotate_clockwise"
    /\ rotations[2].op = "rotate_clockwise"
    /\ rotations[3].op = "rotate_clockwise"
    /\ rotations[4].op = "rotate_counter_clockwise"
    /\ rotations[3].dims = <<<<0, 1>>, <<0, 0>>, <<0, -1>>, <<-1, -1>>>>
    /\ rotations[4].dims # rotations[3].dims
    /\ piece.dims = rotations[3].dims

(***************************************************************************)
(* Properties of the rotation with wall kick and of can_move_down          *)
(***************************************************************************)
JustRotated == op = "rotate_clockwise_with_wall_kick"

\* The offsets after a quarter turn (dx,dy) -> (dy,-dx); the square piece
\* keeps its offsets.
QuarterTurn(p) ==
    IF p.kind = "Square" THEN p.dims
    ELSE [i \in DOMAIN p.dims |-> <<p.dims[i][2], -p.dims[i][1]>>]

\* Every cell of the offsets placed at pivot (x, y) is inside the grid and
\* unoccupied.
FreePlacement(d, offsets, x, y) ==
    \A i \in DOMAIN offsets :
        /\ x + offsets[i][1] \in Cols
        /\ y + offsets[i][2] \in Rows
        /\ (x + offsets[i][1]) \notin DOMAIN d[y + offsets[i][2]]

KickOrder == <<0, -1, 1, -2, 2>>

\* The positions in KickOrder at which the rotated piece can be placed
ValidKicks ==
    {i \in DOMAIN KickOrder :
        FreePlacement(dataBefore, QuarterTurn(pieceBefore),
                      pieceBefore.cell_x + KickOrder[i], pieceBefore.cell_y)}

FirstValidKick == CHOOSE i \in ValidKicks : \A j \in ValidKicks : i <= j

\* C8: the rotation with wall kick returns true exactly when the rotated
\* geometry can be placed at some pivot column offset of 0, -1, +1, -2, +2;
\* on success the pivot column moves by the first such offset in that
\* order, the pivot row is unchanged, and every cell of the result is
\* inside the grid and unoccupied.
C8_WallKickOrder ==
    JustRotated =>
        /\ ret = (ValidKicks # {})
        /\ ret =>
               /\ piece.dims = QuarterTurn(pieceBefore)
               /\ piece.cell_x = pieceBefore.cell_x + KickOrder[FirstValidKick]
               /\ piece.cell_y = pieceBefore.cell_y
               /\ FreePlacement(data, piece.dims, piece.cell_x, piece.cell_y)

\* A rotation that both one-column kicks would serve, taken to the left.
C8_Witness ==
    /\ JustRotated
    /\ ret
    /\ 1 \notin ValidKicks
    /\ 2 \in ValidKicks
    /\ 3 \in ValidKicks
    /\ piece.cell_x = pieceBefore.cell_x - 1
    /\ piece.dims # pieceBefore.dims

\* C9: when none of the five candidate placements is valid the rotation
\* returns false, offsets and pivot are what they were before the call, the
\* grid is unchanged and no shuffle sound is requested.
C9_FailedRotationNoEffect ==
    (JustRotated /\ ValidKicks = {}) =>
        /\ ret = FALSE
        /\ piece.dims = pieceBefore.dims
        /\ piece.cell_x = pieceBefore.cell_x
        /\ piece.cell_y = pieceBefore.cell_y
        /\ piece = pieceBefore
        /\ data = dataBefore
        /\ shuffles = 0

\* A straight piece that has no room to lie down.
C9_Witness ==
    /\ JustRotated
    /\ ValidKicks = {}
    /\ pieceBefore.kind = "Straight"
    /\ QuarterTurn(pieceBefore) # pieceBefore.dims
    /\ ret = FALSE
    /\ piece = pieceBefore

QueriedCells == get_occupied_cells(pieceBefore)

\* C10: can_move_down returns true for every cell list that has a cell with
\* row < 0, whatever the grid holds; otherwise it returns false iff some
\* cell has row + 1 >= height or the cell directly below it is occupied.
C10_SpawnBufferException ==
    op = "can_move_down" =>
        IF \E i \in DOMAIN QueriedCells : QueriedCells[i][2] < 0
        THEN ret = TRUE
        ELSE ret = ~(\E i \in DOMAIN QueriedCells :
                        \/ QueriedCells[i][2] + 1 >= height
                        \/ QueriedCells[i][1] \in DOMAIN data[QueriedCells[i][2] + 1])

\* A piece reaching above the grid, standing on a full row 0.
C10_Witness ==
    /\ op = "can_move_down"
    /\ \E i \in DOMAIN QueriedCells : QueriedCells[i][2] < 0
    /\ Cardinality(DOMAIN data[0]) = width
    /\ \E i \in DOMAIN QueriedCells :
           /\ QueriedCells[i][2] >= 0
           /\ QueriedCells[i][1] \in DOMAIN data[QueriedCells[i][2]]
    /\ ret = TRUE

(***************************************************************************)
(* Properties of the horizontal movement                                   *)
(***************************************************************************)
JustUpdated == op = "update"

\* The direction the last frame read: -1, 1, or 0 when no single direction
\* is active.
FrameDirection == Direction(frame.input)

\* The cells the piece moved by the last frame's horizontal step.
Moves == (frame.shifted.cell_x - frame.rotated.cell_x) * FrameDirection

\* A move of p by one cell in direction dir is legal when every cell lands
\* inside the grid on an unoccupied cell (a cell above row 0 is outside).
LegalMove(p, dir, d) ==
    \A i \in DOMAIN p.dims :
        LET x == p.cell_x + p.dims[i][1] + dir
            y == p.cell_y + p.dims[i][2]
        IN  x \in Cols /\ y \in Rows /\ x \notin DOMAIN d[y]

\* The ARR interval, 1/20 s, in milliseconds.
ArrInterval == 1000 \div ARR_SPEED

\* C12: on the frame a single horizontal direction becomes active after
\* idle, or replaces the opposite direction, the piece moves exactly one
\* cell in that direction if the move is legal and does not move otherwise,
\* and the frame leaves dasTimer = 0, dasActive = false and the repeat
\* timer = 0; a frame without a single direction leaves the piece idle, so
\* a direction released for a frame and pressed again moves the piece at
\* once, before any delay.
C12_ImmediateMoveOnPress ==
    JustUpdated =>
        /\ (FrameDirection # 0 /\ FrameDirection # pieceBefore.last_direction) =>
               /\ Moves = IF LegalMove(frame.rotated, FrameDirection, data) THEN 1 ELSE 0
               /\ piece.cell_x = frame.shifted.cell_x
               /\ piece.last_direction = FrameDirection
               /\ piece.das_timer = 0
               /\ piece.das_active = FALSE
               /\ piece.horizontal_move_timer = 0
        /\ FrameDirection = 0 =>
               /\ Moves = 0
               /\ piece.last_direction = 0
               /\ piece.das_timer = 0
               /\ piece.das_active = FALSE
               /\ piece.horizontal_move_timer = 0

\* A direction was held, released for one frame and pressed again: the
\* piece moved one cell on the frame of the second press.
C12_Witness ==
    /\ JustUpdated
    /\ frame.released = 1
    /\ pieceBefore.last_direction = 0
    /\ FrameDirection = 1
    /\ Moves = 1
    /\ piece.cell_x = pieceBefore.cell_x + 1
    /\ piece.das_timer = 0
    /\ ~piece.das_active

\* The frame kept reading the direction held before it.
Holding == FrameDirection # 0 /\ FrameDirection = pieceBefore.last_direction

\* The first k moves of p in direction dir are all legal.
RECURSIVE Unobstructed(_, _, _, _)
Unobstructed(p, dir, d, k) ==
    IF k = 0 THEN TRUE
    ELSE /\ LegalMove(p, dir, d)
         /\ Unobstructed([p EXCEPT !.cell_x = @ + dir], dir, d, k - 1)

\* The repeat timer of the last frame after the delta was added to it.
RepeatTimer == pieceBefore.horizontal_move_timer + frame.fixed_delta

\* C13: while one direction is held, the DAS timer is the accumulated hold
\* time and no move is emitted until, and on, the frame on which it reaches
\* the DAS delay of 133 ms, which starts the auto-repeat with a repeat
\* timer of 0; on every later frame of the hold the delta is added to the
\* repeat timer and, when unobstructed, the piece moves by the number of
\* whole ARR intervals of 50 ms contained in the timer, the remainder being
\* carried to the next frame.
C13_DasThenArr ==
    (JustUpdated /\ Holding) =>
        /\ ~pieceBefore.das_active =>
               /\ Moves = 0
               /\ piece.das_timer = frame.held
               /\ piece.das_active = (frame.held >= DAS_DELAY)
               /\ piece.das_active => piece.horizontal_move_timer = 0
        /\ pieceBefore.das_active =>
               /\ piece.das_active
               /\ Unobstructed(frame.rotated, FrameDirection, data,
                               RepeatTimer \div ArrInterval) =>
                      /\ Moves = RepeatTimer \div ArrInterval
                      /\ piece.horizontal_move_timer = RepeatTimer % ArrInterval

\* An auto-repeat frame that started with a remainder of 33 ms, added a
\* delta of 104 ms, moved the piece two cells and left a remainder of 37 ms.
C13_Witness ==
    /\ JustUpdated
    /\ Holding
    /\ pieceBefore.das_active
    /\ pieceBefore.horizontal_move_timer = 33
    /\ frame.fixed_delta = 104
    /\ Moves = 2
    /\ piece.horizontal_move_timer = 37

(***************************************************************************)
(* Properties of the occupancy map across the frames of a game             *)
(***************************************************************************)
JustFramed == op = "frame"

\* The cells of table d, as the set of their (col, row) keys.
StoredKeys(d) == {q \in Cols \X Rows : q[1] \in DOMAIN d[q[2]]}

\* The lowest row a clear of d removes (-1 when no visible row is full).
LowestFullRow(d) ==
    IF FullVisibleRows(d) = {} THEN -1
    ELSE CHOOSE r \in FullVisibleRows(d) : \A q \in FullVisibleRows(d) : q <= r

\* C11: every in-bounds cell a frame writes with mark_cells_occupied is
\* occupied right after the write, and the write keeps every cell that was
\* occupied; a frame that locks no piece (movement, rotation, collision
\* queries only) leaves the map as it was; a frame that locks without a clear
\* leaves the written map; a clear keeps, with their colors, the rows below
\* the lowest row it removes; only the start of the cascade empties the map.
C11_OccupancyPersistence ==
    JustFramed =>
        LET before == gameBefore.grid.data
            after  == game.grid.data
            s      == frame.steps
        IN  /\ ~s.locked => after = before
            /\ s.locked =>
                   /\ \A i \in DOMAIN s.cells :
                          is_valid_position(s.cells[i][1], s.cells[i][2]) =>
                              /\ is_cell_occupied(s.marked, s.cells[i][1], s.cells[i][2])
                              /\ s.marked[s.cells[i][2]][s.cells[i][1]] = s.cells[i][3]
                   /\ StoredKeys(before) \subseteq StoredKeys(s.marked)
                   /\ s.lines_cleared = 0 => after = s.marked
                   /\ s.lines_cleared > 0 /\ ~s.level_up =>
                          \A r \in Rows : r > LowestFullRow(s.marked) => after[r] = s.marked[r]
                   /\ s.level_up => after = NewTable

\* A piece was locked onto a grid that held cells already, with no line
\* cleared: the old cells and the new ones are all occupied.
C11_Witness ==
    /\ JustFramed
    /\ frame.steps.locked
    /\ frame.steps.lines_cleared = 0
    /\ StoredKeys(gameBefore.grid.data) # {}
    /\ \A i \in DOMAIN frame.steps.cells :
           is_valid_position(frame.steps.cells[i][1], frame.steps.cells[i][2])
    /\ Cardinality(StoredKeys(game.grid.data))
           = Cardinality(StoredKeys(gameBefore.grid.data)) + 4

(***************************************************************************)
(* Properties of the score at the full width of u64                        *)
(***************************************************************************)
\* The rows the last on_rows_cleared call was given: the rounds of the
\* opening combo clear one row each.
LastRows == IF trace = << >> THEN 1 ELSE trace[Len(trace)].rows

\* 137 * (2^n - 1) * previous multiplier * 2^(combo - 1) * level
\* multiplier, as a natural number
FormulaPoints(before, n) ==
    WideMul(WideMul(WideMul(WideMul(Wide(137), WideDec(WidePow2(n))),
                            before.current_multiplier),
                    WidePow2(before.combo_count)),
            Wide(LevelBucket(before.level)))

\* C14, as stated: no call panics, the score never decreases, and after a
\* clear of n >= 1 rows the score is the score before plus the points of
\* the formula, as natural numbers, and the multiplier kept for the next
\* clear is 2^n - 1.
C14_AsStated ==
    /\ op # "panic"
    /\ ~WideLess(sm.score, smBefore.score)
    /\ op \in {"combo", "on_rows_cleared"} /\ LastRows >= 1 =>
           /\ sm.score = WideAdd(smBefore.score, FormulaPoints(smBefore, LastRows))
           /\ sm.current_multiplier = WideDec(WidePow2(LastRows))

(***************************************************************************)
(* Properties of the high score                                            *)
(***************************************************************************)
MaxOf(a, b) == IF a >= b THEN a ELSE b

\* C15: in every step of the scoring engine the high score ends at least
\* as large as the score; a call of on_rows_cleared leaves the larger of the
\* high score before and the score; the step writes the store once, with
\* the new high score, when the high score changed, and does not write it
\* when the high score stayed.
C15_HighScoreTracking ==
    [][/\ sm'.high_score >= sm'.score
       /\ op' \in {"on_rows_cleared", "warmup"} =>
              sm'.high_score = MaxOf(sm.high_score, sm'.score)
       /\ IF sm'.high_score # sm.high_score
          THEN saves' = saves + 1 /\ storage' = sm'.high_score
          ELSE saves' = saves /\ storage' = storage]_vars

\* A traced clear lifted the score over a high score loaded from the
\* store, and the store holds the new value.
C15_Witness ==
    /\ op = "on_rows_cleared"
    /\ smBefore.high_score = 3000
    /\ smBefore.score > 0
    /\ sm.score > 3000
    /\ sm.high_score = sm.score
    /\ storage = sm.score
    /\ saves = 1

(***************************************************************************)
(* Properties of the placement check above the grid                        *)
(***************************************************************************)
\* The placement of the cells offsets around pivot (x, y) has every cell in
\* a column of the grid, at a row below the height, and on no occupied
\* cell; a cell at a negative row is on no occupied cell.
FreeBelowHeight(d, offsets, x, y) ==
    \A i \in DOMAIN offsets :
        /\ x + offsets[i][1] \in Cols
        /\ y + offsets[i][2] < height
        /\ y + offsets[i][2] >= 0 => (x + offsets[i][1]) \notin DOMAIN d[y + offsets[i][2]]

\* C16, as stated: when the rotated geometry has such a placement at one of
\* the pivot columns the wall kick tries, the rotation is accepted, also
\* when the placement has a cell at a negative row.
C16_AsStated ==
    JustRotated =>
        ((\E i \in DOMAIN KickOrder :
              FreeBelowHeight(dataBefore, QuarterTurn(pieceBefore),
                              pieceBefore.cell_x + KickOrder[i], pieceBefore.cell_y))
         => ret = TRUE)

(***************************************************************************)
(* Properties of the writes to the grid                                    *)
(***************************************************************************)
JustMarked == op = "mark_cells_occupied"

\* The batch of the last mark_cells_occupied
Batch == frame.steps.cells

\* The entries of the batch that name the cell (c, r)
EntriesAt(c, r) == {i \in DOMAIN Batch : Batch[i][1] = c /\ Batch[i][2] = r}

\* The coordinates around the grid, two cells further on every side
Around == ((-2) .. (width + 1)) \X ((-2) .. (height + 1))

\* C17: every stored key is inside the grid; after mark_cells_occupied a
\* cell of the grid that an entry of the batch names is stored with the
\* color of the last such entry, whatever the other entries of the batch,
\* and every other cell is as before, so an entry outside the grid changes
\* nothing; is_cell_occupied is true at every coordinate outside the grid.
C17_OutOfBoundsDropped ==
    /\ DOMAIN data = Rows
    /\ \A r \in Rows : DOMAIN data[r] \subseteq Cols
    /\ \A q \in Around :
           ~is_valid_position(q[1], q[2]) => is_cell_occupied(data, q[1], q[2])
    /\ JustMarked =>
           \A c \in Cols, r \in Rows :
               IF EntriesAt(c, r) = {}
               THEN /\ has(data, c, r) = has(dataBefore, c, r)
                    /\ has(data, c, r) => data[r][c] = dataBefore[r][c]
               ELSE /\ has(data, c, r)
                    /\ \E i \in EntriesAt(c, r) :
                           /\ \A j \in EntriesAt(c, r) : j <= i
                           /\ data[r][c] = Batch[i][3]

\* A batch with entries inside and outside the grid was written: the
\* entries inside are stored, the map has grown by their number only.
C17_Witness ==
    /\ JustMarked
    /\ \E i \in DOMAIN Batch : ~is_valid_position(Batch[i][1], Batch[i][2])
    /\ \E i \in DOMAIN Batch :
           /\ is_valid_position(Batch[i][1], Batch[i][2])
           /\ ~has(dataBefore, Batch[i][1], Batch[i][2])
           /\ has(data, Batch[i][1], Batch[i][2])
    /\ StoredKeys(dataBefore) # {}
    /\ Cardinality(StoredKeys(data)) < Cardinality(StoredKeys(dataBefore)) + 4

(***************************************************************************)
(* Properties of the level transition                                      *)
(***************************************************************************)
InTransition(g) == g.state.name = "LevelTransition"

\* The (col, row, color) triples of a list of cascading cells, in order
Triples(cells) ==
    [i \in DOMAIN cells |-> <<cells[i].col, cells[i].row, cells[i].color>>]

\* The (col, row, color) triples a table holds
StoredTriples(d) == {<<q[1], q[2], d[q[2]][q[1]]>> : q \in StoredKeys(d)}

\* The members of a sequence
Range(f) == {f[i] : i \in DOMAIN f}

\* C18: while the game is in LevelTransition there is no active piece, the
\* occupancy map is empty and the cascade is active; the cascade holds, once
\* each, the cells the grid held after the clear that raised the level, and
\* the same cells in every later frame; a frame that starts in
\* LevelTransition spawns, advances and locks no piece and leaves the
\* ScoreManager as it was; in Playing the cascade is inactive.
C18_TransitionSuspendsPlay ==
    /\ InTransition(game) =>
           /\ game.active_piece = << >>
           /\ game.grid.data = NewTable
           /\ game.grid.is_cascading
           /\ frame.steps.level_up =>
                  LET held == clear_completed_lines(frame.steps.marked).data
                  IN  /\ Range(Triples(game.grid.cascading_cells)) = StoredTriples(held)
                      /\ Len(game.grid.cascading_cells) = Cardinality(StoredKeys(held))
           /\ InTransition(gameBefore) =>
                  Triples(game.grid.cascading_cells)
                      = Triples(gameBefore.grid.cascading_cells)
    /\ JustFramed /\ InTransition(gameBefore) =>
           /\ ~frame.steps.spawned
           /\ ~frame.steps.updated
           /\ ~frame.steps.locked
           /\ game.active_piece = << >>
           /\ game.score_manager = gameBefore.score_manager
    /\ ~InTransition(game) => ~game.grid.is_cascading

\* The second frame of a level transition whose cascade holds cells.
C18_Witness ==
    /\ JustFramed
    /\ InTransition(gameBefore)
    /\ InTransition(game)
    /\ game.grid.cascading_cells # << >>
    /\ game.score_manager.level = 1
    /\ game.state.timer = 2 * GameDelta

(***************************************************************************)
(* Properties of the end of the level transition                           *)
(***************************************************************************)
\* The timer a frame that starts in LevelTransition computes
NewTimer == gameBefore.state.timer + frame.fixed_delta

\* The frames of a transition: the transition starts with the timer at 0
\* (a run of the transition specification starts there);
\* a frame whose new timer is below the duration keeps the transition, with
\* that timer, and passes it as progress, above 0 and below the duration,
\* to every cascading cell; the frame whose new timer is at or past the
\* duration, the first such since the timer in LevelTransition stays
\* below the duration, enters Playing and discards the cascade cells.
TransitionFrames ==
    /\ frame.steps.level_up \/ (op = "init" /\ InTransition(game)) =>
           game.state = LevelTransition(0)
    /\ InTransition(game) => game.state.timer < LEVEL_TRANSITION_DURATION
    /\ JustFramed /\ InTransition(gameBefore) =>
           IF NewTimer >= LEVEL_TRANSITION_DURATION
           THEN /\ game.state = Playing
                /\ game.grid.cascading_cells = << >>
                /\ ~game.grid.is_cascading
           ELSE /\ game.state = LevelTransition(NewTimer)
                /\ frame.steps.progress = NewTimer
                /\ 0 < NewTimer /\ NewTimer < LEVEL_TRANSITION_DURATION
                /\ \A i \in DOMAIN game.grid.cascading_cells :
                       game.grid.cascading_cells[i].offset_y =
                           NewTimer * (VisibleHeight + 2)
                               * game.grid.cascading_cells[i].velocity

\* C19: the frames of a level transition are as TransitionFrames says, and
\* a game in LevelTransition is in Playing some frames later.
C19_TransitionEnds ==
    /\ []TransitionFrames
    /\ InTransition(game) ~> ~InTransition(game)

\* The frame that ends a transition of more than three frames: the timer
\* had not reached the duration yet, the cells are gone.
C19_Witness ==
    /\ JustFramed
    /\ frame.number > 3
    /\ InTransition(gameBefore)
    /\ gameBefore.grid.cascading_cells # << >>
    /\ gameBefore.state.timer < LEVEL_TRANSITION_DURATION
    /\ gameBefore.state.timer > 2 * GameDelta
    /\ game.state = Playing
    /\ game.grid.cascading_cells = << >>

Overlaps(d, p) ==
    LET cells == get_occupied_cells(p)
    IN  \E i \in DOMAIN cells : has(d, cells[i][1], cells[i][2])

\* The active piece of g, if there is one, overlaps no occupied cell.
ActivePieceIsFree(g) ==
    \A i \in DOMAIN g.active_piece : ~Overlaps(g.grid.data, g.active_piece[i])

\* C21 as stated: no lock overwrites a locked cell.  After every frame the
\* active piece overlaps no occupied cell, and a frame that locks a piece
\* leaves, before the lines are cleared, four occupied cells more than
\* there were.
C21_AsStated ==
    op = "frame" =>
        /\ ActivePieceIsFree(game)
        /\ frame.steps.locked =>
               OccupiedCount(frame.steps.marked)
                   = OccupiedCount(gameBefore.grid.data) + 4

\* The piece that the last frame found stopped, as piece.update left it.
Stopped == frame.steps.after[1]

JustLocked == op = "frame" /\ frame.steps.locked

\* C22: lock requests are always in bounds.  Every cell of a piece that
\* has become stopped has its column in 0 .. width - 1 and its row in
\* 0 .. height - 1; the cells handed to mark_cells_occupied are the cells
\* of that piece, and after the call every one of them is stored with
\* the color of the piece, so none was dropped.
C22_LockInBounds ==
    op = "frame" =>
        /\ \A i \in DOMAIN frame.steps.after :
               frame.steps.after[i].stopped => frame.steps.locked
        /\ \A i \in DOMAIN game.active_piece : ~game.active_piece[i].stopped
        /\ frame.steps.locked =>
               LET cells == get_occupied_cells(Stopped)
               IN  /\ Stopped.stopped
                   /\ Len(frame.steps.cells) = Len(cells)
                   /\ \A i \in DOMAIN cells :
                          /\ cells[i][1] \in Cols
                          /\ cells[i][2] \in Rows
                          /\ frame.steps.cells[i]
                                 = <<cells[i][1], cells[i][2], Stopped.color>>
                          /\ cells[i][1] \in DOMAIN frame.steps.marked[cells[i][2]]
                          /\ frame.steps.marked[cells[i][2]][cells[i][1]]
                                 = Stopped.color

\* A piece is locked with a cell in the bottom row and a cell against a
\* side wall.
C22_Witness ==
    /\ JustLocked
    /\ \E i \in DOMAIN frame.steps.cells : frame.steps.cells[i][2] = height - 1
    /\ \E i \in DOMAIN frame.steps.cells :
           frame.steps.cells[i][1] \in {0, width - 1}

(***************************************************************************)
(* Properties of the fall                                                  *)
(***************************************************************************)
JustFell == op = "fall"

\* The piece as the downward movement of the last frame found it.
BeforeFall == frame.shifted

\* The time one row takes at the rate of the frame: five times the
\* velocity of the piece while the soft drop is held.
FallInterval == 1000 \div (IF frame.input.down THEN 5 * BeforeFall.velocity
                           ELSE BeforeFall.velocity)

\* The whole intervals held by the fall timer once the delta of the frame
\* is added to it.
Crossings == (BeforeFall.fall_timer + frame.fixed_delta) \div FallInterval

RowsFallen == piece.cell_y - BeforeFall.cell_y

\* The rows p must descend before none of its cells is above row 0.
RowsAbove(p) ==
    LET cells == get_occupied_cells(p)
        tops  == {-cells[i][2] : i \in DOMAIN cells}
    IN  CHOOSE n \in tops \cup {0} : \A m \in tops \cup {0} : m <= n

Least(a, b) == IF a <= b THEN a ELSE b

\* C23: a piece never locks while partially unspawned.  A stopped piece
\* has no cell above row 0; while a piece has a cell above row 0, every
\* threshold crossing of its fall timer moves it down one row, whatever
\* the grid holds beneath it.
C23_NeverLocksUnspawned ==
    /\ piece.stopped =>
           \A i \in DOMAIN piece.dims : piece.cell_y + piece.dims[i][2] >= 0
    /\ JustFell =>
           /\ RowsFallen >= Least(Crossings, RowsAbove(BeforeFall))
           /\ Crossings <= RowsAbove(BeforeFall) =>
                  /\ RowsFallen = Crossings
                  /\ ~piece.stopped

\* A piece with a cell above row 0, spawned onto a filled column, has been
\* moved down into it.
C23_Witness ==
    /\ JustFell
    /\ RowsAbove(BeforeFall) > 0
    /\ Overlaps(data, BeforeFall)
    /\ RowsFallen > 0
    /\ Overlaps(data, piece)

\* The piece BeforeFall can take n single-row steps: can_move_down holds
\* at its row and at each of the n - 1 rows below.
CanFall(n) ==
    \A j \in 0 .. (n - 1) :
        can_move_down(data, get_occupied_cells_at_position(
                                BeforeFall, BeforeFall.cell_x, BeforeFall.cell_y + j))

GameBeforeFall == frame.steps.shifted[1]

GameCrossings ==
    (GameBeforeFall.fall_timer + frame.fixed_delta)
        \div (1000 \div (IF frame.input.down THEN 5 * GameBeforeFall.velocity
                         ELSE GameBeforeFall.velocity))

\* C24: the lock is final and immediate.  A piece stops at the first
\* threshold crossing at which can_move_down is false: it has taken the
\* steps before that crossing, can_move_down held at each of them and is
\* false where it stands, it is not moved by the crossing and its fall
\* timer is 0.  The frame in which it stops writes exactly the cells it
\* stands on to the grid, and piece.update is never called on a stopped
\* piece.
C24_LockIsFinal ==
    op = "frame" =>
        /\ \A i \in DOMAIN frame.steps.before : ~frame.steps.before[i].stopped
        /\ \A i \in DOMAIN frame.steps.after :
               frame.steps.after[i].stopped = frame.steps.locked
        /\ frame.steps.locked =>
               LET n == Stopped.cell_y - GameBeforeFall.cell_y
                   d == gameBefore.grid.data
               IN  /\ n \in 0 .. (GameCrossings - 1)
                   /\ Stopped = [GameBeforeFall EXCEPT !.cell_y = @ + n,
                                                       !.fall_timer = 0,
                                                       !.stopped = TRUE]
                   /\ \A j \in 0 .. (n - 1) :
                          can_move_down(d, get_occupied_cells_at_position(
                              GameBeforeFall, GameBeforeFall.cell_x,
                              GameBeforeFall.cell_y + j))
                   /\ ~can_move_down(d, get_occupied_cells(Stopped))
                   /\ frame.steps.cells = get_occupied_cells_with_color(Stopped)
                   /\ frame.steps.marked
                          = mark_cells_occupied(d, frame.steps.cells)

\* A soft drop takes a piece down several rows and stops it on the floor
\* in the same frame, and the frame locks it there.
C24_Witness ==
    /\ JustLocked
    /\ Stopped.cell_y - GameBeforeFall.cell_y >= 2
    /\ \E i \in DOMAIN frame.steps.cells : frame.steps.cells[i][2] = height - 1
    /\ game.active_piece = << >>

(***************************************************************************)
(* Properties of the scoring in the frames of a game                       *)
(***************************************************************************)
ScoreBefore == gameBefore.score_manager

ScoreAfter == game.score_manager

\* C26: lock, clear and score in sequence.  A frame in which a piece
\* stops writes the cells of the piece to the grid, then clears the
\* completed lines of the grid so written, once, then calls one mutator
\* of the score manager: on_rows_cleared(count) if the clear returned a
\* count above 0 and on_piece_landed_no_clear if it returned 0.  So
\* lines_cleared goes up by the count returned, and every lock is
\* followed by a call on the score manager.  A frame without a lock makes
\* none of these calls.
C26_LockClearScore ==
    op = "frame" =>
        IF frame.steps.locked
        THEN LET marked == mark_cells_occupied(gameBefore.grid.data, frame.steps.cells)
                 c      == clear_completed_lines(marked)
                 count  == c.cleared_count
                 scored == on_rows_cleared(ScoreBefore, count)
             IN  /\ frame.steps.marked = marked
                 /\ frame.steps.lines_cleared = count
                 /\ game.grid.data = IF frame.steps.level_up THEN NewTable ELSE c.data
                 /\ SubSeq(frame.steps.calls, 1, 3)
                        = <<"mark_cells_occupied", "clear_completed_lines",
                            IF count > 0 THEN "on_rows_cleared"
                            ELSE "on_piece_landed_no_clear">>
                 /\ Len(frame.steps.calls) = IF frame.steps.level_up THEN 4 ELSE 3
                 /\ ScoreAfter = IF count > 0 THEN scored.sm
                                 ELSE on_piece_landed_no_clear(ScoreBefore)
                 /\ frame.steps.points = IF count > 0 THEN scored.points ELSE 0
                 /\ ScoreAfter.lines_cleared = ScoreBefore.lines_cleared + count
                 /\ count > 0 => ScoreAfter.combo_count = ScoreBefore.combo_count + 1
                 /\ count = 0 => /\ ScoreAfter.combo_count = 0
                                 /\ ScoreAfter.current_multiplier = 1
        ELSE /\ frame.steps.calls = << >>
             /\ ScoreAfter = ScoreBefore
             /\ gameBefore.state.name = "Playing" => game.grid = gameBefore.grid

\* A lock completes two lines: the cells are written, the lines cleared
\* and on_rows_cleared(2) called.
C26_Witness ==
    /\ JustLocked
    /\ frame.steps.lines_cleared = 2
    /\ OccupiedCount(frame.steps.marked) = OccupiedCount(gameBefore.grid.data) + 4
    /\ ScoreAfter.lines_cleared = ScoreBefore.lines_cleared + 2
    /\ ScoreAfter.score > ScoreBefore.score

(***************************************************************************)
(* Properties of the start of the level transition                         *)
(***************************************************************************)
\* The last frame locked a piece, the lock cleared lines and level() read
\* after on_rows_cleared was greater than level() read before it.
LevelRose ==
    /\ frame.steps.locked
    /\ frame.steps.lines_cleared > 0
    /\ ScoreAfter.level > ScoreBefore.level

\* The last frame put the game into LevelTransition with the timer at 0.
EnteredTransition ==
    /\ gameBefore.state.name = "Playing"
    /\ game.state = LevelTransition(0)

\* The last frame started the cascade.
CascadeStarted == ~gameBefore.grid.is_cascading /\ game.grid.is_cascading

\* The last frame left the occupancy map empty, and the map held cells
\* before the frame or had cells written to it by the frame.
GridEmptied ==
    /\ game.grid.data = NewTable
    /\ gameBefore.grid.data # NewTable \/ frame.steps.locked

\* C27 as stated: the game enters LevelTransition with timer 0 in exactly
\* the frames in which a lock clears lines and the level rises; nothing
\* else starts the cascade or empties the grid.
C27_AsStated ==
    op = "frame" =>
        /\ EnteredTransition <=> LevelRose
        /\ CascadeStarted <=> LevelRose
        /\ GridEmptied <=> LevelRose

\* C27: the game enters LevelTransition with timer 0, and the cascade
\* starts, in exactly the frames in which a lock clears lines and the level
\* rises, which are the frames in which lines_cleared passes a multiple of
\* ten; such a frame leaves the map empty.  The only other frames that
\* leave the map empty are those in which the lines cleared by a lock
\* held every occupied cell.
C27_LevelUpTrigger ==
    op = "frame" =>
        /\ EnteredTransition <=> LevelRose
        /\ CascadeStarted <=> LevelRose
        /\ frame.steps.level_up <=> LevelRose
        /\ LevelRose <=>
               ScoreAfter.lines_cleared \div 10 > ScoreBefore.lines_cleared \div 10
        /\ LevelRose => game.grid.data = NewTable /\ game.active_piece = << >>
        /\ GridEmptied /\ ~LevelRose =>
               /\ frame.steps.locked
               /\ frame.steps.lines_cleared > 0
               /\ OccupiedCount(frame.steps.marked)
                      = frame.steps.lines_cleared * width

\* A lock clears lines that take lines_cleared from 9 to 11: the game is
\* in LevelTransition with timer 0 and the cells left over are cascading.
C27_Witness ==
    /\ op = "frame"
    /\ LevelRose
    /\ ScoreBefore.lines_cleared = 9
    /\ ScoreAfter.lines_cleared = 11
    /\ game.state = LevelTransition(0)
    /\ game.grid.is_cascading
    /\ Len(game.grid.cascading_cells) > 0

(***************************************************************************)
(* Properties of the level and of the combo                                *)
(***************************************************************************)
\* The sum of the rows_cleared arguments of the first n traced calls.
RECURSIVE RowsPassed(_)
RowsPassed(n) == IF n = 0 THEN 0 ELSE RowsPassed(n - 1) + trace[n].rows

\* C28: the level invariant.  In every state of the ScoreManager level is
\* lines_cleared divided by 10, rounded down, lines_cleared is the sum of
\* the rows_cleared arguments passed so far (one row in each of the
\* opening rounds, then those of the traced calls), and no call makes
\* either value smaller.
C28_LevelInvariant ==
    /\ sm.level = sm.lines_cleared \div 10
    /\ sm.lines_cleared = warmup + RowsPassed(Len(trace))
    /\ sm.lines_cleared >= smBefore.lines_cleared
    /\ sm.level >= smBefore.level

\* A call that clears several rows takes lines_cleared past a multiple of
\* ten, and the level goes up with it.
C28_Witness ==
    /\ op = "on_rows_cleared"
    /\ LastCall.rows > 1
    /\ smBefore.lines_cleared % 10 # 9
    /\ sm.level = smBefore.level + 1
    /\ sm.level >= 2
    /\ Len(trace) >= 2

\* C29: the only reset path.  on_rows_cleared(n) with n >= 1 adds exactly
\* 1 to combo_count, and only on_piece_landed_no_clear sets it to 0:
\* a frame that locks and clears adds 1, a frame that locks without a
\* clear leaves combo_count 0 and current_multiplier 1, and every other
\* frame (a spawn, a move, the start, the course and the end of a level
\* transition) leaves both as they were; the start of a level transition
\* adds nothing to what on_rows_cleared did.  on_rows_cleared(0) returns 0
\* and changes no field.
C29_OnlyResetPath ==
    op = "frame" =>
        /\ IF frame.steps.locked /\ frame.steps.lines_cleared > 0
           THEN /\ ScoreAfter.combo_count = ScoreBefore.combo_count + 1
                /\ ScoreAfter.current_multiplier
                       = RowsBonus(frame.steps.lines_cleared)
           ELSE IF frame.steps.locked
           THEN /\ ScoreAfter.combo_count = 0
                /\ ScoreAfter.current_multiplier = 1
           ELSE /\ ScoreAfter.combo_count = ScoreBefore.combo_count
                /\ ScoreAfter.current_multiplier = ScoreBefore.current_multiplier
        /\ ScoreAfter.combo_count < ScoreBefore.combo_count =>
               /\ frame.steps.locked
               /\ frame.steps.lines_cleared = 0
               /\ frame.steps.calls[3] = "on_piece_landed_no_clear"
        /\ \A n \in 1 .. MaxRowsCleared :
               on_rows_cleared(ScoreAfter, n).sm.combo_count
                   = ScoreAfter.combo_count + 1
        /\ on_rows_cleared(ScoreAfter, 0)
               = [sm |-> ScoreAfter, points |-> 0, saved |-> FALSE]
        /\ on_piece_landed_no_clear(ScoreAfter).combo_count = 0

\* A level transition has run to its end and left the combo and the
\* multiplier that the clear before it had set.
C29_Witness ==
    /\ op = "frame"
    /\ InTransition(gameBefore)
    /\ game.state = Playing
    /\ ScoreAfter.combo_count = 1
    /\ ScoreAfter.current_multiplier = 3

(***************************************************************************)
(* Properties of the active piece of a game                                *)
(***************************************************************************)
\* C30: the piece is consumed on lock.  A piece that stops is taken out of
\* the game by the frame in which it stops, so after every frame the game
\* holds at most one active piece and never a stopped one.  A frame spawns
\* a piece, at the spawn position, if and only if it starts in Playing
\* with no active piece; every other frame of play updates the piece it
\* found, and a level transition holds none.
C30_PieceConsumedOnLock ==
    /\ Len(game.active_piece) <= 1
    /\ \A i \in DOMAIN game.active_piece : ~game.active_piece[i].stopped
    /\ InTransition(game) => game.active_piece = << >>
    /\ op = "frame" =>
           /\ frame.steps.locked => game.active_piece = << >>
           /\ \A i \in DOMAIN frame.steps.after :
                  IF frame.steps.after[i].stopped
                  THEN frame.steps.locked
                  ELSE game.active_piece = frame.steps.after
           /\ frame.steps.spawned <=>
                  /\ gameBefore.state.name = "Playing"
                  /\ gameBefore.active_piece = << >>
           /\ frame.steps.spawned =>
                  frame.steps.before
                      = <<new_piece(SPAWN_VELOCITY, width \div 2, SPAWN_ROW,
                                    frame.shape_index)>>
           /\ gameBefore.state.name = "Playing" /\ ~frame.steps.spawned =>
                  frame.steps.before = gameBefore.active_piece
           /\ frame.pieces <= frame.number

\* A second piece is spawned in the frame after the one that locked the
\* first and left the game without a piece.
C30_Witness ==
    /\ op = "frame"
    /\ frame.steps.spawned
    /\ frame.pieces = 2
    /\ gameBefore.active_piece = << >>
    /\ gameBefore.grid.data # NewTable
    /\ Len(game.active_piece) = 1

(***************************************************************************)
(* Properties of the blocked and the idle horizontal movement              *)
(***************************************************************************)
\* The number of legal moves of p in direction dir before the first
\* illegal one, up to k.
RECURSIVE LegalRun(_, _, _, _)
LegalRun(p, dir, d, k) ==
    IF k = 0 \/ ~LegalMove(p, dir, d) THEN 0
    ELSE 1 + LegalRun([p EXCEPT !.cell_x = @ + dir], dir, d, k - 1)

\* The last frame was an auto-repeat frame one of whose due moves was
\* illegal.
BlockedRepeat ==
    /\ JustUpdated
    /\ Holding
    /\ pieceBefore.das_active
    /\ RepeatTimer >= ArrInterval
    /\ ~Unobstructed(frame.rotated, FrameDirection, data,
                     RepeatTimer \div ArrInterval)

\* C31: an auto-repeat frame whose next due move is illegal makes the
\* legal moves before it (none, when the first is illegal), sets the repeat
\* timer to 0 and attempts nothing more, and leaves dasActive true and
\* lastDirection and the DAS timer as they were; an auto-repeat frame that
\* starts with a repeat timer of 0 and is unobstructed moves once per whole
\* ARR interval of its delta, with no new DAS delay.
C31_BlockedAutoRepeat ==
    /\ BlockedRepeat =>
           /\ Moves = LegalRun(frame.rotated, FrameDirection, data,
                               RepeatTimer \div ArrInterval)
           /\ piece.cell_x = frame.shifted.cell_x
           /\ piece.horizontal_move_timer = 0
           /\ piece.das_active
           /\ piece.last_direction = pieceBefore.last_direction
           /\ piece.das_timer = pieceBefore.das_timer
    /\ ( /\ JustUpdated
         /\ Holding
         /\ pieceBefore.das_active
         /\ pieceBefore.horizontal_move_timer = 0
         /\ Unobstructed(frame.rotated, FrameDirection, data,
                         frame.fixed_delta \div ArrInterval) ) =>
           /\ Moves = frame.fixed_delta \div ArrInterval
           /\ piece.horizontal_move_timer = frame.fixed_delta % ArrInterval
           /\ piece.das_active
           /\ piece.das_timer = pieceBefore.das_timer

\* The frames before this one were auto-repeat frames (the hold is longer
\* than the DAS timer, which stops once the delay is over) and the last of
\* them was blocked (it left a repeat timer of 0); the piece has since
\* fallen clear of the obstruction, and this frame, of 104 ms, moved it two
\* cells.
C31_Witness ==
    /\ JustUpdated
    /\ Holding
    /\ pieceBefore.das_active
    /\ pieceBefore.horizontal_move_timer = 0
    /\ frame.held - frame.fixed_delta > pieceBefore.das_timer
    /\ frame.fixed_delta = 104
    /\ Moves = 2
    /\ piece.horizontal_move_timer = 4

\* The horizontal state of a piece no direction acts on.
Idle(p) ==
    /\ p.last_direction = 0
    /\ p.das_timer = 0
    /\ p.das_active = FALSE
    /\ p.horizontal_move_timer = 0

\* C32: a frame that reads neither or both horizontal directions leaves
\* the piece with lastDirection = 0, dasTimer = 0, dasActive = false and a
\* repeat timer of 0, and its horizontal step leaves the column alone; in
\* every state dasActive implies that lastDirection is -1 or +1.
C32_IdleReset ==
    /\ piece.das_active => piece.last_direction \in {-1, 1}
    /\ (JustUpdated /\ frame.input.left = frame.input.right) =>
           /\ Idle(piece)
           /\ Idle(frame.shifted)
           /\ frame.shifted.cell_x = frame.rotated.cell_x
           /\ piece.cell_x = frame.shifted.cell_x

\* Both directions were read by a frame that found the piece in
\* auto-repeat to the left with time on the repeat timer: the frame left
\* the piece idle in its column.
C32_Witness ==
    /\ JustUpdated
    /\ frame.input.left
    /\ frame.input.right
    /\ pieceBefore.das_active
    /\ pieceBefore.last_direction = -1
    /\ pieceBefore.horizontal_move_timer > 0
    /\ Idle(piece)
    /\ piece.cell_x = pieceBefore.cell_x

(***************************************************************************)
(* Properties of the drop speed                                            *)
(***************************************************************************)
\* The fall velocity, in cells per second, of the piece spawned in game g.
SpawnedVelocity(g) == spawn_new_piece(g, 0).active_piece[1].velocity

\* C33, as stated: a piece spawned at a higher level has a strictly
\* greater fall velocity than a piece spawned at a lower level; here, the
\* piece a frame spawned falls faster than the piece spawned in any game
\* of a lower level.
C33_AsStated ==
    (JustFramed /\ frame.steps.spawned) =>
        \A g \in GameStarts :
            g.score_manager.level < gameBefore.score_manager.level =>
                \A i \in DOMAIN frame.steps.before :
                    frame.steps.before[i].velocity > SpawnedVelocity(g)

(***************************************************************************)
(* Properties of the cascade                                               *)
(***************************************************************************)
\* The cascade cells of the game now and when the last operation started.
Cells == game.grid.cascading_cells

CellsBefore == gameBefore.grid.cascading_cells

\* C34, as stated: every cascade cell has a positive fall velocity, a cell
\* in a column further right has a strictly lower one, every cell's
\* vertical offset is non-negative, and a frame of the transition never
\* decreases it.
C34_AsStated ==
    /\ \A i \in DOMAIN Cells :
           /\ Cells[i].col \in 0 .. (GRID_WIDTH_CELLS - 1)
           /\ Cells[i].velocity > 0
           /\ Cells[i].offset_y >= 0
           /\ \A j \in DOMAIN Cells :
                  Cells[i].col < Cells[j].col =>
                      Cells[i].velocity > Cells[j].velocity
    /\ (JustFramed /\ InTransition(gameBefore) /\ InTransition(game)) =>
           \A i \in DOMAIN Cells : Cells[i].offset_y >= CellsBefore[i].offset_y

(***************************************************************************)
(* Properties of the sounds                                                *)
(***************************************************************************)
\* The last frame made a rotation attempt that returned true.
RotationSucceeded ==
    /\ frame.steps.updated
    /\ frame.input.rotate
    /\ \A i \in DOMAIN frame.steps.before :
           rotate_clockwise_with_wall_kick(frame.steps.before[i],
                                           gameBefore.grid.data).ok

\* The sound s if the condition holds, nothing otherwise.
Sound(condition, s) == IF condition THEN <<s>> ELSE << >>

\* C35: the sounds a frame requests are, in this order, the shuffle if a
\* rotation attempt returned true, the bounce if the frame locked a piece,
\* the success if that lock cleared at least one line, and the level-up if
\* it raised the level; each at most once, and a frame without a lock
\* requests none of the last three.
C35_SoundEvents ==
    JustFramed =>
        /\ frame.sounds =
               Sound(RotationSucceeded, "shuffle")
                   \o Sound(JustLocked, "bounce")
                   \o Sound(JustLocked /\ frame.steps.lines_cleared > 0, "success")
                   \o Sound(JustLocked /\ game.score_manager.level
                                              > gameBefore.score_manager.level,
                            "level_up")
        /\ JustLocked <=> \E i \in DOMAIN frame.steps.after :
                              frame.steps.after[i].stopped

\* A frame that rotated the piece, locked it, cleared a line and raised the
\* level requested all four sounds.
C35_Witness ==
    /\ JustFramed
    /\ RotationSucceeded
    /\ JustLocked
    /\ frame.steps.lines_cleared > 0
    /\ InTransition(game)
    /\ frame.sounds = <<"shuffle", "bounce", "success", "level_up">>

(***************************************************************************)
(* Properties of the combo across levels                                   *)
(***************************************************************************)
\* The lines cleared since the level of ScoreManager s was reached.
LinesInLevel(s) == s.lines_cleared % s.lines_per_level

\* No lock has been made since the level was raised: the grid is as the
\* cascade emptied it.
LevelJustRaised(g) == g.score_manager.level >= 1 /\ g.grid.data = NewTable

\* C36: a level transition ends with an empty grid and no piece; a lock on
\* an empty grid, as the first lock after a level transition is, clears
\* nothing and leaves comboCount = 0 and currentMultiplier = 1; the combo
\* is at most the lines cleared in the current level, except between the
\* clear that raised the level and the first lock after it, and it is at
\* most 10 in every state.
C36_ComboBounded ==
    /\ game.score_manager.combo_count <= game.score_manager.lines_per_level
    /\ game.score_manager.lines_per_level = 10
    /\ \/ game.score_manager.combo_count <= LinesInLevel(game.score_manager)
       \/ LevelJustRaised(game)
    /\ (JustFramed /\ InTransition(gameBefore) /\ ~InTransition(game)) =>
           /\ game.grid.data = NewTable
           /\ game.active_piece = << >>
           /\ game.score_manager = gameBefore.score_manager
    /\ (JustLocked /\ gameBefore.grid.data = NewTable) =>
           /\ frame.steps.lines_cleared = 0
           /\ game.score_manager.combo_count = 0
           /\ game.score_manager.current_multiplier = 1
           /\ game.grid.data # NewTable

\* The first lock after the level transition that followed a combo of ten
\* clears: the grid was empty, the combo went from 10 to 0.
C36_Witness ==
    /\ JustLocked
    /\ gameBefore.grid.data = NewTable
    /\ gameBefore.score_manager.level = 1
    /\ gameBefore.score_manager.combo_count = 10
    /\ game.score_manager.combo_count = 0
    /\ game.score_manager.current_multiplier = 1

(***************************************************************************)
(* Properties of the horizontal movement above the grid                    *)
(***************************************************************************)
\* Some cell of piece p is above row 0.
AboveGrid(p) == \E i \in DOMAIN p.dims : p.cell_y + p.dims[i][2] < 0

\* C37: while a cell of the piece is above row 0, the horizontal step of a
\* frame leaves the column alone, on the press of a direction as in
\* auto-repeat, whatever the input and the grid; only the straight piece
\* and the ell, unturned at the spawn row, have such a cell.
C37_BlockedAboveGrid ==
    /\ AboveGrid(piece) =>
           /\ piece.kind \in {"Straight", "Ell"}
           /\ piece.cell_y = SPAWN_ROW
           /\ piece.dims = get_shape_by_index(IF piece.kind = "Straight"
                                              THEN 0 ELSE 3).dims
    /\ (JustUpdated /\ AboveGrid(frame.rotated)) =>
           /\ frame.shifted.cell_x = frame.rotated.cell_x
           /\ piece.cell_x = frame.rotated.cell_x

\* An auto-repeat frame with a move due found the ell at the spawn row of
\* the empty grid, the cell beside each of its cells free, and did not
\* move it.
C37_Witness ==
    /\ JustUpdated
    /\ Holding
    /\ pieceBefore.das_active
    /\ RepeatTimer >= ArrInterval
    /\ AboveGrid(frame.rotated)
    /\ frame.rotated.kind = "Ell"
    /\ data = NewTable
    /\ \A i \in DOMAIN frame.rotated.dims :
           frame.rotated.cell_x + frame.rotated.dims[i][1] + FrameDirection \in Cols
    /\ Moves = 0

(***************************************************************************)
(* Properties of the high score over the games of a process                *)
(***************************************************************************)
\* The high scores saved so far.
SavedHighScores == {trace[i].high_score : i \in DOMAIN trace}

\* The last save's write failed.
LastWriteFailed == trace # << >> /\ ~trace[Len(trace)].written

\* C38: load_game_data returns the data of the last save_game_data,
\* whether its write succeeded or not, and that is the high score of the
\* ScoreManager; the ScoreManager of a new game starts with a high score
\* that is at least every high score saved so far and at least the high
\* score of the game before it.
C38_HighScoreSurvives ==
    /\ trace # << >> =>
           load_game_data(storage).data = trace[Len(trace)].high_score
    /\ load_game_data(storage).data = sm.high_score
    /\ load_game_data(storage).storage = storage
    /\ \A h \in SavedHighScores : h <= sm.high_score
    /\ op = "new" =>
           /\ sm.high_score >= smBefore.high_score
           /\ sm.score = 0

\* A game saved a new high score, the write failed, and the next game
\* started with that high score, which the file does not hold.
C38_Witness ==
    /\ op = "new"
    /\ LastWriteFailed
    /\ sm.high_score = trace[Len(trace)].high_score
    /\ sm.high_score > 0
    /\ storage.file # <<sm.high_score>>
    /\ smBefore.score = sm.high_score

(***************************************************************************)
(* BackgroundTask (background_task.rs).  The struct differs with the       *)
(* target: a native build keeps the receiver of the channel of the task    *)
(* spawned last (execute replaces it, and the result of an older task is   *)
(* sent to a channel nobody reads), a wasm32 build keeps one queue that    *)
(* every spawned future pushes its result to.  An Option is a sequence of  *)
(* at most one element.  spawned stands for the futures that spawn_local   *)
(* has queued and that have not run yet.                                   *)
(***************************************************************************)
Targets == {"native", "wasm32"}

\* enum LoadingTask
PlaylistSong(index) == [task |-> "PlaylistSong", index |-> index]

GameOverSong == [task |-> "GameOverSong", index |-> 0]

TestSound == [task |-> "TestSound", index |-> 0]

BackgroundTask_new(target) ==
    IF target = "native" THEN [receiver |-> << >>]
    ELSE [spawned |-> << >>, completed_results |-> << >>]

IsNative(bt) == "receiver" \in DOMAIN bt

execute(bt, task_id) ==
    IF IsNative(bt)
    THEN [receiver |-> <<[task_id |-> task_id, state |-> "running", ok |-> TRUE]>>]
    ELSE [bt EXCEPT !.spawned = Append(@, task_id)]

\* The work of a task can end: the thread of the channel still runs, or a
\* future is queued.
CanComplete(bt) ==
    IF IsNative(bt)
    THEN bt.receiver # << >> /\ bt.receiver[1].state = "running"
    ELSE bt.spawned # << >>

\* sender.send((task_id, result)) / results.push_back((task_id, result))
Complete(bt, ok) ==
    IF IsNative(bt)
    THEN [receiver |-> <<[bt.receiver[1] EXCEPT !.state = "sent", !.ok = ok]>>]
    ELSE [spawned           |-> Tail(bt.spawned),
          completed_results |-> Append(bt.completed_results,
                                       [task_id |-> Head(bt.spawned), ok |-> ok])]

\* Returns the Option received and the BackgroundTask afterwards.  A channel
\* whose only message was received is disconnected: try_recv().ok() is None.
try_recv(bt) ==
    IF IsNative(bt)
    THEN IF bt.receiver # << >> /\ bt.receiver[1].state = "sent"
         THEN [value |-> <<[task_id |-> bt.receiver[1].task_id,
                            ok      |-> bt.receiver[1].ok]>>,
               task  |-> [receiver |-> <<[bt.receiver[1] EXCEPT !.state = "received"]>>]]
         ELSE [value |-> << >>, task |-> bt]
    ELSE IF bt.completed_results # << >>
         THEN [value |-> <<Head(bt.completed_results)>>,
               task  |-> [bt EXCEPT !.completed_results = Tail(@)]]
         ELSE [value |-> << >>, task |-> bt]

(***************************************************************************)
(* MusicManager (music_manager.rs).  A handle is the PlaybackState of the  *)
(* sound it controls: "Playing", or "Stopped" once the sound has ended; a  *)
(* handle that the manager stops is taken out of its field.  The decoded   *)
(* data are kept as flags, current_decoded_song is never read.             *)
(* audio_manager.play is taken to succeed.                                 *)
(***************************************************************************)
\* song_bytes.len()
NUM_SONGS == 10

MusicManager_new(target) ==
    [current_index      |-> 0,
     current_handle     |-> << >>,
     muted              |-> FALSE,
     game_over_decoded  |-> FALSE,
     game_over_handle   |-> << >>,
     playlist_active    |-> FALSE,
     loading_task       |-> BackgroundTask_new(target),
     pending_song_index |-> << >>,
     pending_game_over  |-> FALSE,
     test_song_decoded  |-> FALSE,
     test_song_handle   |-> << >>]

stop_current_song(m) == [m EXCEPT !.current_handle = << >>]

stop_game_over_song(m) == [m EXCEPT !.game_over_handle = << >>]

set_muted(m, muted) ==
    LET a == [m EXCEPT !.muted = muted]
    IN  IF muted THEN stop_game_over_song(stop_current_song(a)) ELSE a

play_current_song(m) ==
    LET a == stop_current_song(m)
    IN  IF a.current_index >= NUM_SONGS THEN a
        ELSE [a EXCEPT !.pending_song_index = <<a.current_index>>,
                       !.loading_task = execute(@, PlaylistSong(a.current_index))]

play_next_song(m) ==
    play_current_song([m EXCEPT !.current_index = (@ + 1) % NUM_SONGS])

start(m) ==
    IF ~m.muted
    THEN play_current_song([stop_game_over_song(m) EXCEPT
                                !.current_index = 0, !.playlist_active = TRUE])
    ELSE m

play_game_over_song(m) ==
    LET a == [stop_game_over_song(stop_current_song(m)) EXCEPT
                  !.playlist_active = FALSE]
    IN  IF ~a.game_over_decoded /\ ~a.pending_game_over
        THEN [a EXCEPT !.pending_game_over = TRUE,
                       !.loading_task = execute(@, GameOverSong)]
        ELSE IF a.game_over_decoded
             THEN [a EXCEPT !.game_over_handle = <<"Playing">>]
             ELSE a

\* MusicManager::stop
stop(m) == stop_game_over_song(stop_current_song(m))

test_sound(m) ==
    LET a == [stop_current_song(m) EXCEPT !.playlist_active = FALSE]
    IN  IF a.test_song_decoded
        THEN [a EXCEPT !.test_song_handle = <<"Playing">>]
        ELSE [a EXCEPT !.loading_task = execute(@, TestSound)]

\* One arm of the match of update: what a received result does, and the
\* sounds started so far.
Received(m, started, msg) ==
    CASE msg.task_id.task = "PlaylistSong" ->
             IF msg.ok
             THEN [m       |-> [m EXCEPT !.pending_song_index = << >>,
                                         !.current_handle = <<"Playing">>],
                   started |-> Append(started, msg.task_id)]
             ELSE [m       |-> [m EXCEPT !.pending_song_index = << >>,
                                         !.current_handle = << >>],
                   started |-> started]
      [] msg.task_id.task = "GameOverSong" ->
             IF msg.ok
             THEN [m       |-> [m EXCEPT !.pending_game_over = FALSE,
                                         !.game_over_decoded = TRUE,
                                         !.game_over_handle = <<"Playing">>],
                   started |-> Append(started, msg.task_id)]
             ELSE [m       |-> [m EXCEPT !.pending_game_over = FALSE],
                   started |-> started]
      [] OTHER ->
             IF msg.ok
             THEN [m       |-> [m EXCEPT !.current_handle = <<"Playing">>],
                   started |-> Append(started, msg.task_id)]
             ELSE [m |-> m, started |-> started]

\* while let Some((task_id, outer_result)) = self.loading_task.try_recv()
RECURSIVE RecvLoop(_, _)
RecvLoop(m, started) ==
    LET r == try_recv(m.loading_task)
    IN  IF r.value = << >> THEN [m |-> m, started |-> started]
        ELSE LET h == Received([m EXCEPT !.loading_task = r.task], started, r.value[1])
             IN  RecvLoop(h.m, h.started)

\* MusicManager::update.  Returns the manager and the sounds it started.
MusicManager_update(m) ==
    LET r == RecvLoop(m, << >>)
        a == r.m
        b == [a EXCEPT !.game_over_handle = << >>]
        song_finished ==
            IF b.pending_song_index # << >> THEN FALSE
            ELSE IF b.current_handle # << >> THEN b.current_handle[1] = "Stopped"
            ELSE TRUE
    IN  IF a.muted THEN r
        ELSE IF a.game_over_handle = <<"Playing">> THEN r
        ELSE IF ~b.playlist_active THEN [m |-> b, started |-> r.started]
        ELSE IF song_finished THEN [m |-> play_next_song(b), started |-> r.started]
        ELSE [m |-> b, started |-> r.started]

(***************************************************************************)
(* The main loop (main.rs).  The closure that App::run calls once a frame  *)
(* is one operator, MainFrame, built from its three parts in their order:  *)
(* the creation of the audio managers of a wasm32 build, the match on the  *)
(* screen state, and the handling of the window focus.  A context x holds  *)
(* music_manager, the locals of main (app) and what the frame has done so  *)
(* far.  Times are whole milliseconds.  What the screens and the game read *)
(* from the keyboard and the mouse is the event of the frame.              *)
(***************************************************************************)
\* const UNFOCUSED_MUTE_DELAY: f32 = 15.0
UNFOCUSED_MUTE_DELAY == 15000

\* impl MusicPlayer for Option<MusicManager>: a call on None does nothing
OnSome(o, F(_)) == IF o = << >> THEN o ELSE <<F(o[1])>>

\* music_manager.set_muted(muted); sound_manager.set_muted(muted)
Call_set_muted(x, muted) ==
    [x EXCEPT !.music = IF @ = << >> THEN @ ELSE <<set_muted(@[1], muted)>>,
              !.app.sound_manager = IF @ = << >> THEN @ ELSE <<muted>>]

\* music_manager.start(); the frame notes the call
Call_start(x) ==
    [x EXCEPT !.music = OnSome(@, start), !.after_game_over = FALSE]

\* music_manager.play_game_over_song(); the frame notes the call
Call_play_game_over_song(x) ==
    [x EXCEPT !.music = OnSome(@, play_game_over_song),
              !.after_game_over = (x.music # << >>)]

\* music_manager.update(); the frame notes the sounds started
Call_update(x) ==
    IF x.music = << >> THEN x
    ELSE LET r == MusicManager_update(x.music[1])
         IN  [x EXCEPT !.music = <<r.m>>, !.started = r.started,
                       !.update_after_game_over = x.after_game_over]

\* main.rs 237-279: the audio managers of a wasm32 build are created when
\* the page has set START_MUSIC_FLAG
CreateAudio(x, input) ==
    IF x.app.target = "wasm32" /\ input.start_music_flag
    THEN LET s == [x EXCEPT !.app.sound_manager = IF @ = << >> THEN <<FALSE>> ELSE @]
         IN  IF x.music = << >>
             THEN Call_start([s EXCEPT !.music = <<MusicManager_new("wasm32")>>])
             ELSE s
    ELSE x

\* main.rs 293-325
TitleFrame(x, input) ==
    LET u == Call_update(x)
    IN  CASE input.event = "volume_button" ->
                 [u EXCEPT !.app.previous_state = "Title",
                           !.app.state = "VolumeControl"]
          [] input.event = "enter" -> [u EXCEPT !.app.state = "Playing"]
          [] OTHER -> u

\* main.rs 327-385; the game reports its end as the event "game_over"
PlayingFrame(x, input) ==
    LET u == Call_update(x)
    IN  CASE input.event = "game_over" ->
                 [Call_play_game_over_song(u) EXCEPT !.app.state = "GameOver"]
          [] input.event = "volume_button" ->
                 [u EXCEPT !.app.previous_state = "Playing",
                           !.app.state = "VolumeControl"]
          [] input.event = "quit" -> [u EXCEPT !.app.state = "Title"]
          [] OTHER -> u

\* main.rs 387-421
GameOverFrame(x, input) ==
    LET u == Call_update(x)
    IN  CASE input.event = "back_to_menu" ->
                 [Call_start(u) EXCEPT !.app.state = "Title"]
          [] input.event = "retry" ->
                 [Call_start(u) EXCEPT !.app.state = "Playing"]
          [] OTHER -> u

\* VolumeControlScreen::update (volume_control_screen.rs 42-99), called
\* when both managers exist
VolumeControlScreen_update(x, input) ==
    LET s == [x EXCEPT !.music = OnSome(@, stop)]
    IN  CASE input.event = "slider_released" ->
                 [s EXCEPT !.music = OnSome(@, test_sound)]
          [] input.event = "close" ->
                 [Call_start(s) EXCEPT !.app.state = s.app.previous_state]
          [] OTHER -> s

\* main.rs 423-450
VolumeControlFrame(x, input) ==
    LET is_muted == ~x.app.mute_button_small
        c == IF input.event = "mute_click"
             THEN Call_start(Call_set_muted(
                      [x EXCEPT !.app.mute_button_small = is_muted], is_muted))
             ELSE x
    IN  IF c.music # << >> /\ c.app.sound_manager # << >>
        THEN VolumeControlScreen_update(c, input)
        ELSE c

\* main.rs 452-470: the focus changed since the last frame
FocusChanged(x, input) ==
    IF input.is_focused # x.app.was_focused
    THEN LET w == [x EXCEPT !.app.was_focused = input.is_focused]
         IN  IF ~input.is_focused
             THEN [w EXCEPT !.app.unfocused_timer = <<0>>,
                            !.app.muted_due_to_unfocused = FALSE]
             ELSE LET c == [w EXCEPT !.app.unfocused_timer = << >>]
                  IN  IF c.app.muted_due_to_unfocused
                      THEN [Call_start(Call_set_muted(c, FALSE)) EXCEPT
                                !.app.muted_due_to_unfocused = FALSE,
                                !.focus_unmuted = TRUE]
                      ELSE c
    ELSE x

\* main.rs 472-485: the unfocused timer
UnfocusedTimer(x, input) ==
    IF ~input.is_focused /\ x.app.unfocused_timer # << >>
    THEN LET elapsed == x.app.unfocused_timer[1] + input.delta
         IN  IF elapsed >= UNFOCUSED_MUTE_DELAY
             THEN [Call_set_muted(x, TRUE) EXCEPT
                       !.app.muted_due_to_unfocused = TRUE,
                       !.app.unfocused_timer = << >>,
                       !.timeout_muted = TRUE]
             ELSE [x EXCEPT !.app.unfocused_timer = <<elapsed>>]
    ELSE x

\* match state
StateFrame(x, input) ==
    CASE x.app.state = "Title" -> TitleFrame(x, input)
      [] x.app.state = "Playing" -> PlayingFrame(x, input)
      [] x.app.state = "GameOver" -> GameOverFrame(x, input)
      [] OTHER -> VolumeControlFrame(x, input)

\* The closure of App::run
MainFrame(x, input) ==
    UnfocusedTimer(FocusChanged(StateFrame(CreateAudio(x, input), input), input), input)

(***************************************************************************)
(* The specification of the music: frames of the main loop, the ends of    *)
(* the background decodes and the ends of the sounds, in any order.  frame *)
(* records what the last frame read and did, and what the claims need to   *)
(* remember of the frames before it:                                       *)
(*   after_game_over  play_game_over_song was called and start was not     *)
(*                    called since                                         *)
(*   away             the time the window has been without focus, counted  *)
(*                    as main counts it and up to UNFOCUSED_MUTE_DELAY     *)
(*   timed_out        the timeout muted the audio since the focus was lost *)
(***************************************************************************)
MaxMusicFrames == 5

\* timer.delta of a frame, in milliseconds
MusicDeltas == {6000, 9000}

\* Whether Storage::has_volume_settings() found settings decides the screen
\* the program opens with
FirstStates == {"Title", "VolumeControl"}

Events(state, is_focused) ==
    IF ~is_focused
    THEN IF state = "Playing" THEN {"none", "game_over"} ELSE {"none"}
    ELSE CASE state = "Title" -> {"none", "volume_button", "enter"}
           [] state = "Playing" -> {"none", "game_over", "volume_button", "quit"}
           [] state = "GameOver" -> {"none", "back_to_menu", "retry"}
           [] OTHER -> {"none", "mute_click", "slider_released", "close"}

MusicInputs(mu, a) ==
    [is_focused       : BOOLEAN,
     delta            : MusicDeltas,
     start_music_flag : IF a.target = "wasm32" /\ mu = << >> THEN BOOLEAN ELSE {FALSE},
     event            : {"none", "game_over", "volume_button", "enter", "quit",
                         "back_to_menu", "retry", "mute_click", "slider_released",
                         "close"}]

NoMusicInput ==
    [is_focused |-> TRUE, delta |-> 0, start_music_flag |-> FALSE, event |-> "none"]

\* main.rs 175-229: the locals of main before the first frame
App_new(target, state) ==
    [target                 |-> target,
     state                  |-> state,
     previous_state         |-> "Title",
     was_focused            |-> TRUE,
     unfocused_timer        |-> << >>,
     muted_due_to_unfocused |-> FALSE,
     mute_button_small      |-> FALSE,
     sound_manager          |-> IF target = "native" THEN <<FALSE>> ELSE << >>,
     frames                 |-> 0]

\* main.rs 197-229: a native build creates the managers at once and starts
\* the music when it opens with the title
Music_new(target, state) ==
    IF target = "native"
    THEN IF state = "Title" THEN <<start(MusicManager_new(target))>>
         ELSE <<MusicManager_new(target)>>
    ELSE << >>

InitMusic ==
    /\ op = "init"
    /\ GridIdle
    /\ ScoreIdle
    /\ PieceIdle
    /\ game = Game_new(0)
    /\ gameBefore = game
    /\ twin = game
    /\ \E target \in Targets, state \in FirstStates :
        /\ app = App_new(target, state)
        /\ music = Music_new(target, state)
    /\ frame = [input                  |-> NoMusicInput,
                started                |-> << >>,
                update_after_game_over |-> FALSE,
                after_game_over        |-> FALSE,
                timeout_muted          |-> FALSE,
                focus_unmuted          |-> FALSE,
                user_muted             |-> FALSE,
                away                   |-> 0,
                timed_out              |-> FALSE,
                timed_out_before       |-> FALSE]

Min(a, b) == IF a < b THEN a ELSE b

\* One frame of the main loop
MusicFrame ==
    /\ app.frames < MaxMusicFrames
    /\ \E input \in MusicInputs(music, app) :
        /\ input.event \in Events(app.state, input.is_focused)
        /\ \E r \in {MainFrame([music                  |-> music,
                                app                    |-> app,
                                started                |-> << >>,
                                update_after_game_over |-> FALSE,
                                after_game_over        |-> frame.after_game_over,
                                timeout_muted          |-> FALSE,
                                focus_unmuted          |-> FALSE], input)} :
            /\ music' = r.music
            /\ app' = [r.app EXCEPT !.frames = @ + 1]
            /\ frame' = [input                  |-> input,
                         started                |-> r.started,
                         update_after_game_over |-> r.update_after_game_over,
                         after_game_over        |-> r.after_game_over,
                         timeout_muted          |-> r.timeout_muted,
                         focus_unmuted          |-> r.focus_unmuted,
                         user_muted             |-> /\ app.mute_button_small
                                                    /\ music # << >>
                                                    /\ music[1].muted,
                         away                   |-> IF input.is_focused THEN 0
                                                    ELSE Min(frame.away + input.delta,
                                                             UNFOCUSED_MUTE_DELAY),
                         timed_out              |-> /\ ~input.is_focused
                                                    /\ (frame.timed_out \/ r.timeout_muted),
                         timed_out_before       |-> frame.timed_out]
    /\ op' = "frame"
    /\ UNCHANGED <<gridVars, scoreVars, pieceVars, game, gameBefore, twin>>

\* Whether the decode of an embedded asset can fail is not decided here:
\* both results are sent
DecodeResults == {TRUE, FALSE}

\* The work of a background task ends and its result is sent
TaskCompletes ==
    /\ music # << >>
    /\ CanComplete(music[1].loading_task)
    /\ \E ok \in DecodeResults :
        music' = <<[music[1] EXCEPT !.loading_task = Complete(@, ok)]>>
    /\ op' = "task_completes"
    /\ UNCHANGED <<app, frame, gridVars, scoreVars, pieceVars, game, gameBefore, twin>>

\* A sound reaches its end: its handle reports PlaybackState::Stopped
SongEnds ==
    /\ music # << >>
    /\ \/ /\ music[1].current_handle = <<"Playing">>
          /\ music' = <<[music[1] EXCEPT !.current_handle = <<"Stopped">>]>>
       \/ /\ music[1].game_over_handle = <<"Playing">>
          /\ music' = <<[music[1] EXCEPT !.game_over_handle = <<"Stopped">>]>>
    /\ op' = "song_ends"
    /\ UNCHANGED <<app, frame, gridVars, scoreVars, pieceVars, game, gameBefore, twin>>

NextMusic == MusicFrame \/ TaskCompletes \/ SongEnds

SpecMusic == InitMusic /\ [][NextMusic]_vars

(***************************************************************************)
(* C39.  Game over stops the playlist: between a call of                   *)
(* play_game_over_song and the next call of start, no update starts a      *)
(* playlist song, also when the decode of a playlist song was pending at   *)
(* the call of play_game_over_song and ends after it.                      *)
(***************************************************************************)
\* The update of the last frame started a playlist song
PlaylistSongStarted ==
    \E i \in DOMAIN frame.started : frame.started[i].task = "PlaylistSong"

C39_AsStated ==
    ~(frame.update_after_game_over /\ PlaylistSongStarted)

(***************************************************************************)
(* C40.  The focus-loss mute protocol: the audio is muted because of a     *)
(* focus loss only when the window has been without focus for at least     *)
(* UNFOCUSED_MUTE_DELAY; a regained focus unmutes the audio and restarts   *)
(* the music only if that timeout had muted it; and audio that the user    *)
(* muted with the mute button stays muted through any loss and regain of   *)
(* the focus, until the button is clicked again.                           *)
(***************************************************************************)
\* The timeout muted the audio in the last frame only after the delay
MutedAfterDelay ==
    frame.timeout_muted => frame.away >= UNFOCUSED_MUTE_DELAY

\* The regained focus unmuted the audio in the last frame only after the
\* timeout had muted it while the focus was lost
UnmutedAfterTimeout ==
    frame.focus_unmuted => frame.timed_out_before

\* The audio was muted and the mute button showed it when the last frame
\* began, and the frame had no click on the button: the audio is muted
UserMuteStays ==
    (frame.user_muted /\ frame.input.event # "mute_click")
        => /\ music # << >>
           /\ music[1].muted
           /\ app.sound_manager = <<TRUE>>

C40_AsStated ==
    /\ MutedAfterDelay
    /\ UnmutedAfterTimeout
    /\ UserMuteStays

====
